---- MODULE Spec2Model ----
\* Verification model of the cloudflare-dns-operator: the caching provider
\* client (src/dns/cloudflare.rs), the condition tracker (src/conditions.rs),
\* the DNS propagation checker (src/dns_check.rs), the reconcile functions
\* (src/reconcile.rs), the reconcile closure and error policy (src/main.rs)
\* and the service address selection (src/services.rs).
EXTENDS Integers, Sequences, FiniteSets, TLC

\* ---------------------------------------------------------------- bounds

\* Last clock tick (one tick is one minute of Utc::now()).
MaxTime == 6
\* Largest record id the provider hands out.
MaxId == 4
\* Longest candidate address list of a service.
MaxIps == 3
\* Last clock tick of the controller runs.
MaxClock == 2
\* Most check requests waiting in the dns_check_tx channel.
MaxQueued == 1
\* Tasks that call the provider client at the same time.
MaxCallers == 2

\* ------------------------------------------------------ program constants

\* list_zones: const CACHE_DURATION = Duration::minutes(5)
CACHE_DURATION_ZONES == 5
\* list_dns_records: const CACHE_DURATION = Duration::minutes(1)
CACHE_DURATION_RECORDS == 1

\* ----------------------------------------------------------- value sets

ZoneIds == {"z1"}
ZoneNames == {"a.com"}
Names == {"n1", "n2"}
Contents == {"c1", "c2"}
\* Content of records that were put into the zone by others.
ForeignContents == {"c0"}

\* What the provider's zone listing can return (AccountInfo: id, name).
ZoneListings ==
    { <<>>, <<[id |-> "z1", name |-> "a.com"]>> }

\* Zone::Identifier(id) | Zone::Name(name)
ZoneArgs ==
    { [kind |-> "Identifier", v |-> z] : z \in ZoneIds }
        \cup { [kind |-> "Name", v |-> n] : n \in ZoneNames }

VARIABLES
    now,                     \* Utc::now(), in minutes
    provZones,               \* provider: the zones the token can see
    provRecs,                \* provider: zone id -> sequence of DNS records
    nextId,                  \* provider: next record id to hand out
    list_zone_cache,         \* CloudflareApi.list_zone_cache: <<>> or <<[time, zones]>>
    list_dns_records_cache,  \* CloudflareApi.list_dns_records_cache: zone id -> <<>> or <<[time, records]>>
    last,                    \* the most recent call, apply or check: arguments, result, provider requests issued
    inputs,                  \* what the callers pass in and the nameserver answers
    sel,                     \* a select_ip call: its arguments and, once it has run, its result
    response,                \* a cloudflare_api_request: the provider's response and, once it has run, its result
    cluster,                 \* the CloudflareDNSRecords the API server lists, in order
    checker,                 \* the checker's loop between two awaits
    callers,                 \* the tasks that call the provider client, each between two awaits
    obj,                     \* the CloudflareDNSRecord object as the API server holds it
    store,                   \* the reflector's copy of it, which reconcile is handed
    reconciler,              \* where the controller's reconcile of the object stands
    do_dns_check,            \* Context.do_dns_check (a check interval is configured)
    dns_lookup_success,      \* Context.dns_lookup_success: key -> <<>> (absent) or <<bool>>
    dns_check_tx,            \* the check requests waiting in the channel
    patched                  \* what an apply that waits in dns_check_tx.send has yet to persist

apiVars == <<now, provZones, provRecs, nextId, list_zone_cache, list_dns_records_cache, last, inputs>>
selVars == <<sel>>
taskVars == <<response, cluster, checker, callers>>
ctlVars == <<obj, store, reconciler, do_dns_check, dns_lookup_success, dns_check_tx, patched>>
vars == <<apiVars, selVars, taskVars, ctlVars>>

\* ------------------------------------------------------------- helpers

\* Iterator::find: the index of the first TRUE of a sequence of flags, from
\* index i on (0 when there is none).
RECURSIVE FindFrom(_, _)
FindFrom(flags, i) ==
    IF i > Len(flags) THEN 0
    ELSE IF flags[i] THEN i
    ELSE FindFrom(flags, i + 1)

FindByName(s, name) == FindFrom([i \in 1..Len(s) |-> s[i].name = name], 1)

FindById(s, id) == FindFrom([i \in 1..Len(s) |-> s[i].id = id], 1)

RemoveAt(s, i) == SubSeq(s, 1, i - 1) \o SubSeq(s, i + 1, Len(s))

\* A provider request as it appears on the wire.
Req(m, z, id) == [m |-> m, z |-> z, id |-> id]

\* The client together with the provider it talks to, threaded through one call.
\*   zc, rc : the two caches;  recs, nid : the provider's records and id counter;
\*   calls  : the provider requests issued so far by the running call.
Client ==
    [zc |-> list_zone_cache, rc |-> list_dns_records_cache,
     recs |-> provRecs, nid |-> nextId, calls |-> <<>>]

\* Result<T>: res is "ok" or "err"; the value is in zones, recs or id.
Ok(c, zones, recs, id) == [c |-> c, res |-> "ok", zones |-> zones, recs |-> recs, id |-> id]
Err(c) == [c |-> c, res |-> "err", zones |-> <<>>, recs |-> <<>>, id |-> ""]

\* The provider's answers to the requests of one call. Every method returns at
\* the first request that fails (cloudflare_api_request bails on a non-success
\* status), so one call sees at most one failure: fail names the request that
\* fails ("none" when all succeed), front whether the provider lists a created
\* record before or after the records it already holds.
Failures == {"none", "zones", "list", "delete", "create"}
Outcome(fail, front) == [fail |-> fail, front |-> front]
\* The answers to a call that may create a record: the place of the created
\* record matters only when nothing fails.
CreateOutcomes(failures) ==
    { Outcome(f, FALSE) : f \in failures } \cup { Outcome("none", TRUE) }

\* ------------------------------------------------- CloudflareApi methods

invalidate_dns_record_cache(c, zone_identifier) ==
    [c EXCEPT !.rc = [c.rc EXCEPT ![zone_identifier] = <<>>]]

\* list_zones with the age test off by one (<= for <).
list_zones_inclusive_ttl(c, oc) ==
    IF c.zc # <<>> /\ now - c.zc[1].time <= CACHE_DURATION_ZONES
    THEN Ok(c, c.zc[1].zones, <<>>, "")
    ELSE LET c1 == [c EXCEPT !.calls = Append(@, Req("GET zones", "", 0))]
         IN  IF oc.fail = "zones"
             THEN Err(c1)
             ELSE Ok([c1 EXCEPT !.zc = <<[time |-> now, zones |-> provZones]>>],
                     provZones, <<>>, "")

list_zones(c, oc) ==
    IF c.zc # <<>> /\ now - c.zc[1].time < CACHE_DURATION_ZONES
    THEN Ok(c, c.zc[1].zones, <<>>, "")
    ELSE LET c1 == [c EXCEPT !.calls = Append(@, Req("GET zones", "", 0))]
         IN  IF oc.fail = "zones"
             THEN Err(c1)
             ELSE Ok([c1 EXCEPT !.zc = <<[time |-> now, zones |-> provZones]>>],
                     provZones, <<>>, "")

list_dns_records(c, zone_identifier, oc) ==
    IF c.rc[zone_identifier] # <<>>
           /\ now - c.rc[zone_identifier][1].time < CACHE_DURATION_RECORDS
    THEN Ok(c, <<>>, c.rc[zone_identifier][1].records, "")
    ELSE LET c1 == [c EXCEPT !.calls = Append(@, Req("GET dns_records", zone_identifier, 0))]
         IN  IF oc.fail = "list"
             THEN Err(c1)
             ELSE Ok([c1 EXCEPT !.rc[zone_identifier] =
                            <<[time |-> now, records |-> c.recs[zone_identifier]]>>],
                     <<>>, c.recs[zone_identifier], "")

\* Zone::lookup_id: Ok(Some(id)) has id # "", Ok(None) has id = "".
lookup_id(c, zone, oc) ==
    IF zone.kind = "Identifier"
    THEN Ok(c, <<>>, <<>>, zone.v)
    ELSE LET r == list_zones(c, oc)
             i == FindByName(r.zones, zone.v)
         IN  IF r.res = "err" THEN Err(r.c)
             ELSE Ok(r.c, <<>>, <<>>, IF i = 0 THEN "" ELSE r.zones[i].id)

create_dns_record(c, args, oc) ==
    LET lk == lookup_id(c, args.zone, oc)
    IN  IF lk.res = "err" \/ lk.id = ""
        THEN Err(lk.c)
        ELSE LET z == lk.id
                 c1 == [lk.c EXCEPT !.calls = Append(@, Req("POST dns_records", z, 0))]
                 rec == [id |-> c1.nid, name |-> args.name, content |-> args.content]
                 c2 == [c1 EXCEPT !.recs[z] = IF oc.front THEN <<rec>> \o @ ELSE Append(@, rec),
                                  !.nid = @ + 1]
             IN  IF oc.fail # "create"
                 THEN Ok(invalidate_dns_record_cache(c2, z), <<>>, <<rec>>, z)
                 ELSE [Err(invalidate_dns_record_cache(c1, z)) EXCEPT !.id = z]

delete_dns_record(c, zone_identifier, id, oc) ==
    LET c1 == [c EXCEPT !.calls = Append(@, Req("DELETE dns_records", zone_identifier, id))]
        i == IF zone_identifier \in ZoneIds THEN FindById(c.recs[zone_identifier], id) ELSE 0
    IN  IF oc.fail = "delete" \/ i = 0
        THEN [Err(c1) EXCEPT !.id = zone_identifier]
        ELSE Ok(invalidate_dns_record_cache(
                    [c1 EXCEPT !.recs[zone_identifier] = RemoveAt(@, i)], zone_identifier),
                <<>>, <<>>, zone_identifier)

\* update_dns_record_and_wait without the delete of the record it found.
update_without_delete(c, args, oc) ==
    LET Created(zone_id, cr) ==
            IF cr.res = "err"
            THEN [Err(cr.c) EXCEPT !.id = zone_id]
            ELSE Ok(invalidate_dns_record_cache(cr.c, zone_id), <<>>, cr.recs, zone_id)
        Deleted(zone_id, dl) ==
            IF dl.res = "err"
            THEN [Err(dl.c) EXCEPT !.id = zone_id]
            ELSE Created(zone_id, create_dns_record(dl.c, args, oc))
        Found(zone_id, ls, i) ==
            IF ls.res = "err"
            THEN [Err(ls.c) EXCEPT !.id = zone_id]
            ELSE IF i # 0 /\ ls.recs[i].content = args.content
            THEN Ok(ls.c, <<>>, <<ls.recs[i]>>, zone_id)
            ELSE Deleted(zone_id, Ok(ls.c, <<>>, <<>>, zone_id))
        Listed(zone_id, ls) == Found(zone_id, ls, FindByName(ls.recs, args.name))
        Resolved(lk) ==
            IF lk.res = "err" \/ lk.id = ""
            THEN Err(lk.c)
            ELSE Listed(lk.id, list_dns_records(lk.c, lk.id, oc))
    IN  Resolved(lookup_id(c, args.zone, oc))

\* Each step is handed the result of the call before it: the zone id looked
\* up, the records listed, the record found under the name, the delete, the
\* create.
update_dns_record_and_wait(c, args, oc) ==
    LET Created(zone_id, cr) ==
            IF cr.res = "err"
            THEN [Err(cr.c) EXCEPT !.id = zone_id]
            ELSE Ok(invalidate_dns_record_cache(cr.c, zone_id), <<>>, cr.recs, zone_id)
        Deleted(zone_id, dl) ==
            IF dl.res = "err"
            THEN [Err(dl.c) EXCEPT !.id = zone_id]
            ELSE Created(zone_id, create_dns_record(dl.c, args, oc))
        Found(zone_id, ls, i) ==
            IF ls.res = "err"
            THEN [Err(ls.c) EXCEPT !.id = zone_id]
            ELSE IF i # 0 /\ ls.recs[i].content = args.content
            THEN Ok(ls.c, <<>>, <<ls.recs[i]>>, zone_id)
            ELSE Deleted(zone_id,
                         IF i # 0
                         THEN delete_dns_record(ls.c, zone_id, ls.recs[i].id, oc)
                         ELSE Ok(ls.c, <<>>, <<>>, zone_id))
        Listed(zone_id, ls) == Found(zone_id, ls, FindByName(ls.recs, args.name))
        Resolved(lk) ==
            IF lk.res = "err" \/ lk.id = ""
            THEN Err(lk.c)
            ELSE Listed(lk.id, list_dns_records(lk.c, lk.id, oc))
    IN  Resolved(lookup_id(c, args.zone, oc))

\* ------------------------------------------ cloudflare_api_request

\* StatusCode::is_success: 200..=299
is_success(status) == status >= 200 /\ status <= 299

\* serde: which "result" members ("list", "record", "null") deserialize into
\* the type R the caller asks for: Vec<_> (the listings), DnsRecordInfo
\* (create), Value (delete), which takes any JSON.
deserializes(R, result) ==
    \/ R = "Value"
    \/ R = "Vec" /\ result = "list"
    \/ R = "DnsRecordInfo" /\ result = "record"

\* A response: whether the request got one at all (send), its status, and
\* its body: whether it is JSON, whether it has the members of ApiResult
\* (errors, messages, result, success), and the success and result members.
Responses ==
    [sent : BOOLEAN, status : {200, 201, 204, 301, 400, 403, 404, 409, 500},
     json : BOOLEAN, envelope : BOOLEAN, success : BOOLEAN, result : {"list", "record", "null"}]

\* Result<R>: the result member on success, else which step bailed. ApiResult<R>
\* parses when the body is JSON, has the members of the envelope and its
\* result member deserializes into R.
cloudflare_api_request(R, res) ==
    IF ~res.sent THEN [res |-> "err", why |-> "send", result |-> "null"]
    ELSE IF ~is_success(res.status) THEN [res |-> "err", why |-> "status", result |-> "null"]
    ELSE IF ~(res.json /\ res.envelope /\ deserializes(R, res.result))
         THEN [res |-> "err", why |-> "parse", result |-> "null"]
    ELSE [res |-> "ok", why |-> "", result |-> res.result]

NoRequest ==
    [R |-> "Value", res |-> [sent |-> FALSE, status |-> 200, json |-> FALSE, envelope |-> FALSE,
                             success |-> FALSE, result |-> "null"],
     done |-> FALSE, returned |-> [res |-> "err", why |-> "send", result |-> "null"]]

\* ------------------------------------------------------ services.rs

\* std::net::IpAddr: V4 and V6 addresses.
V4 == {"10.0.0.1", "10.0.0.2"}
V6 == {"2001:db8::1", "2001:db8::2"}
IpAddrs == V4 \cup V6
is_ipv4(ip) == ip \in V4
is_ipv6(ip) == ip \in V6

\* resources.rs RecordType; "None" is the absent hint (Option::None).
RecordTypes == {"A", "AAAA", "CNAME", "MX", "TXT", "SRV", "LOC", "SPF", "NS"}
RecordTypeHints == {"None"} \cup RecordTypes

\* Option<IpAddr>, or the panic of an index out of bounds.
SomeIp(ip) == [tag |-> "Some", ip |-> ip]
NoneIp == [tag |-> "None", ip |-> ""]
Panic == [tag |-> "panic", ip |-> ""]

\* ips.iter().find(family).copied().unwrap_or(ips[0]): ips[0] is an argument of
\* unwrap_or, evaluated before the call, so an empty list panics.
FindOrFirst(ips, flags) ==
    IF Len(ips) = 0 THEN Panic
    ELSE IF FindFrom(flags, 1) # 0 THEN SomeIp(ips[FindFrom(flags, 1)])
    ELSE SomeIp(ips[1])

\* select_ip that takes the first IPv4 address whatever the hint.
select_ip_ignoring_hint(ips, record_type) ==
    IF Len(ips) = 0 /\ record_type = "None" THEN NoneIp
    ELSE IF Len(ips) = 1 THEN SomeIp(ips[1])
    ELSE FindOrFirst(ips, [i \in 1..Len(ips) |-> is_ipv4(ips[i])])

select_ip(ips, record_type) ==
    IF Len(ips) = 0 /\ record_type = "None" THEN NoneIp
    ELSE IF Len(ips) = 1 /\ is_ipv4(ips[1]) /\ record_type = "A" THEN SomeIp(ips[1])
    ELSE IF Len(ips) = 1 /\ is_ipv4(ips[1]) /\ record_type = "AAAA" THEN SomeIp(ips[1])
    ELSE IF Len(ips) = 1 /\ is_ipv6(ips[1]) /\ record_type = "A" THEN SomeIp(ips[1])
    ELSE IF Len(ips) = 1 /\ is_ipv6(ips[1]) /\ record_type = "AAAA" THEN SomeIp(ips[1])
    ELSE IF Len(ips) = 1 THEN SomeIp(ips[1])
    ELSE IF record_type = "A"
         THEN FindOrFirst(ips, [i \in 1..Len(ips) |-> is_ipv4(ips[i])])
    ELSE IF record_type = "AAAA"
         THEN FindOrFirst(ips, [i \in 1..Len(ips) |-> is_ipv6(ips[i])])
    ELSE FindOrFirst(ips, [i \in 1..Len(ips) |-> is_ipv4(ips[i])])

NoSelect == [ips |-> <<>>, record_type |-> "None", done |-> FALSE, res |-> NoneIp]


\* Result<Option<T>>, or the panic that ends the process.
Some(v) == [tag |-> "Some", v |-> v]
None == [tag |-> "None", v |-> ""]
Failed == [tag |-> "Err", v |-> ""]
Panicked == [tag |-> "panic", v |-> ""]

\* str::parse::<IpAddr>(): <<>> when the text is no address, else the address
\* (an address prints in its canonical form).
ParseIpAddr(text) ==
    IF text \in IpAddrs THEN <<text>>
    ELSE IF text = "2001:DB8::1" THEN <<"2001:db8::1">>
    ELSE <<>>

\* filter_map over the texts: the addresses that parse, in order.
RECURSIVE ParseAll(_)
ParseAll(texts) ==
    IF texts = <<>> THEN <<>> ELSE ParseIpAddr(Head(texts)) \o ParseAll(Tail(texts))

\* The Service objects a content reference can meet. ingress and external_ips
\* are <<>> when the field is missing, else <<list>>; an ingress entry without
\* an ip (hostname only) is the text "".
NoService == [exists |-> FALSE, spec |-> FALSE, type |-> "", ingress |-> <<>>, external_ips |-> <<>>]
Services ==
    { NoService,
      [NoService EXCEPT !.exists = TRUE],
      [exists |-> TRUE, spec |-> TRUE, type |-> "LoadBalancer", ingress |-> <<>>, external_ips |-> <<>>],
      [exists |-> TRUE, spec |-> TRUE, type |-> "LoadBalancer", ingress |-> << <<"">> >>, external_ips |-> <<>>],
      [exists |-> TRUE, spec |-> TRUE, type |-> "LoadBalancer", ingress |-> << <<"10.0.0.1">> >>, external_ips |-> <<>>],
      [exists |-> TRUE, spec |-> TRUE, type |-> "ClusterIP", ingress |-> <<>>, external_ips |-> << <<"2001:DB8::1", "10.0.0.1">> >>],
      [exists |-> TRUE, spec |-> TRUE, type |-> "ClusterIP", ingress |-> <<>>, external_ips |-> <<>>] }

\* The Option<IpAddr> of select_ip as a Result<Option<String>> (ip.to_string()).
Selected(r) ==
    IF r.tag = "panic" THEN Panicked
    ELSE IF r.tag = "None" THEN None
    ELSE Some(r.ip)

public_ip_from_service(svc, record_type) ==
    IF ~svc.exists THEN Failed
    ELSE IF ~svc.spec THEN None
    ELSE IF svc.type = "LoadBalancer"
         THEN IF svc.ingress = <<>> THEN Failed
              ELSE Selected(select_ip(ParseAll(svc.ingress[1]), record_type))
    ELSE IF svc.external_ips # <<>>
         THEN Selected(select_ip(ParseAll(svc.external_ips[1]), record_type))
    ELSE None

\* ------------------------------------------------------ resources.rs

\* StringOrService
ValueContent(v) == [kind |-> "Value", v |-> v]
ServiceContent == [kind |-> "Service", v |-> "svc"]

\* ZoneNameOrId over ValueOrReference
ZoneSpec(kind, from, v) == [kind |-> kind, from |-> from, v |-> v]

\* CloudflareDNSRecordSpec::lookup_content, given the Service the cluster holds.
lookup_content(spec, svc) ==
    IF spec.content.kind = "Value" THEN Some(spec.content.v)
    ELSE public_ip_from_service(svc, spec.ty)

\* The ConfigMap or Secret a reference names, as the cluster holds it: no such
\* object, the object without the key, or the value under the key.
NoObject == "absent"
NoKey == "no key"
Referenced == { NoObject, NoKey } \cup ZoneIds

\* Reference::lookup: the get of the object fails when there is none (`?`); a
\* missing key gives none.
Reference_lookup(referenced) ==
    IF referenced = NoObject THEN Failed
    ELSE IF referenced = NoKey THEN None
    ELSE Some(referenced)

\* What the cluster holds that a resource's lookups read: the Service of a
\* service content, the referenced object of a zone reference.
ServicesOf(spec) == IF spec.content.kind = "Service" THEN Services ELSE {NoService}
ReferencedOf(spec) == IF spec.zone.from = "Reference" THEN Referenced ELSE {NoObject}

\* ValueOrReference::lookup, given the object the reference names.
lookup(value_or_reference, referenced) ==
    IF value_or_reference.from = "Value" THEN Some(value_or_reference.v)
    ELSE Reference_lookup(referenced)

\* RecordType::default()
unwrap_or_default(ty) == IF ty = "None" THEN "A" ELSE ty

\* CloudflareDNSRecordStatus::default(); the empty record id is 0.
DefaultStatus == [record_id |-> 0, zone_id |-> "", pending |-> FALSE, conditions |-> <<>>]

\* resource.status.clone().unwrap_or_default()
unwrap_or_default_status(resource) ==
    IF resource.status = <<>> THEN DefaultStatus ELSE resource.status[1]

\* The CloudflareDNSRecord the controller reconciles, default/r1, and a second
\* one that only the check cycles meet.
ResourceKey == "default:r1"
Keys == {ResourceKey, "default:r2"}

Resource(spec) == [spec |-> spec, status |-> <<>>, finalizer |-> FALSE, deleting |-> FALSE]

\* ----------------------------------------------------- conditions.rs

\* Option<&Vec<Condition>> of a resource: <<>> is None, <<vec>> is Some(vec).
StatusConditions(current) ==
    IF current.status = <<>> THEN <<>> ELSE current.status[1].conditions

last_ready_condition(conditions) ==
    IF conditions = <<>>
    THEN [was_ready |-> TRUE, last_condition |-> <<>>]
    ELSE LET vec == conditions[1]
             i == FindFrom([j \in 1..Len(vec) |-> vec[j].type = "Ready"], 1)
         IN  [was_ready |-> i # 0 /\ vec[i].status = "True",
              last_condition |-> IF i = 0 THEN <<>> ELSE <<vec[i]>>]

Condition(status, reason, message, last_transition_time) ==
    [type |-> "Ready", status |-> status, reason |-> reason, message |-> message,
     last_transition_time |-> last_transition_time]

\* error_condition that stamps every result with the call time.
error_condition_stamping_now(current, reason, message) ==
    Condition("False", reason, message, now)

error_condition(current, reason, message) ==
    LET l == last_ready_condition(StatusConditions(current))
    IN  Condition("False", reason, message,
                  IF l.was_ready THEN now
                  ELSE IF l.last_condition # <<>> THEN l.last_condition[1].last_transition_time
                  ELSE now)

success_condition(current) ==
    LET l == last_ready_condition(StatusConditions(current))
    IN  Condition("True", "Sucessfully applied changes", "DNS record ready",
                  IF ~l.was_ready THEN now
                  ELSE IF l.last_condition # <<>> THEN l.last_condition[1].last_transition_time
                  ELSE now)

\* ------------------------------------------------------ reconcile.rs

\* The calls of the API server an apply makes, any of which can fail.
K8sFailures == {"get", "patch", "patch_status"}
\* The failures a run lets happen: none, or any one call of an apply, to the
\* provider or to the API server (every error ends the apply).
NoFailures == {"none"}
AllFailures == Failures \cup K8sFailures

\* What one apply meets outside the process: the call that fails, the Service
\* and the zone reference as the cluster holds them.
ApplyInput(fail, svc, referenced) ==
    [k8s |-> fail, svc |-> svc, referenced |-> referenced, oc |-> Outcome(fail, FALSE)]

\* The result of apply: the client it leaves, Ok or Err (or that it blocks or
\* panics), the branch it took, the status it persisted (<<>> when none),
\* whether it sent a check request.
Applied(c, res, branch, status, send, r) ==
    [c |-> c, res |-> res, branch |-> branch, status |-> status, send |-> send,
     id |-> r.id, zones |-> <<>>, recs |-> r.recs]

\* update_conditions: the resource's status (or the default one) with the
\* conditions replaced, patched into the status subresource.
update_conditions(resource, c, conditions, in, branch) ==
    LET status == IF resource.status = <<>> THEN DefaultStatus ELSE resource.status[1]
    IN  IF in.k8s = "patch_status"
        THEN Applied(c, "err", "patch_status error", <<>>, FALSE, Err(c))
        ELSE Applied(c, "ok", branch, <<[status EXCEPT !.conditions = <<conditions>>]>>, FALSE, Err(c))

\* pending that looks at do_dns_check only.
pending_unless_disabled(check, lookup_success) == check

\* pending that takes the entry of the map as it is.
pending_not_negated(check, lookup_success) ==
    IF check
    THEN (IF lookup_success[ResourceKey] = <<>> THEN FALSE ELSE lookup_success[ResourceKey][1])
    ELSE FALSE

\* pending that reads the map whether or not checks are done.
pending_ignoring_do_dns_check(check, lookup_success) ==
    ~(IF lookup_success[ResourceKey] = <<>> THEN FALSE ELSE lookup_success[ResourceKey][1])

\* let pending: the negated entry of the map under the resource's key (false
\* when there is none) when checks are done, else false.
pending(check, lookup_success) ==
    IF check
    THEN ~(IF lookup_success[ResourceKey] = <<>> THEN FALSE ELSE lookup_success[ResourceKey][1])
    ELSE FALSE

\* apply on the resource the reflector handed over, with the object as the API
\* server holds it. The patch of the object writes back the spec the apply read,
\* which past the conflict test is the spec the object has.
apply(resource, existing, c, check, lookup_success, in) ==
    LET is_new == resource.status = <<>>
        is_pending == pending(check, lookup_success)
        condition == IF ~is_pending
                     THEN success_condition(resource)
                     ELSE error_condition(resource, "pending", "not propagated yet")
        send == is_new /\ check
        Persist(zone_id, up) ==
            IF up.res = "err"
            THEN Applied(up.c, "err", "update error", <<>>, FALSE, up)
            ELSE IF in.k8s \in {"patch", "patch_status"}
            THEN Applied(up.c, "err", in.k8s \o " error", <<>>, send, up)
            ELSE Applied(up.c, "ok", IF is_pending THEN "pending" ELSE "ready",
                         <<[record_id |-> up.recs[1].id, zone_id |-> zone_id, pending |-> is_pending,
                            conditions |-> << <<condition>> >>]>>,
                         send, up)
        Update(content, lk) ==
            IF lk.res = "err"
            THEN Applied(lk.c, "err", "zone error", <<>>, FALSE, Err(c))
            ELSE IF lk.id = ""
            THEN update_conditions(resource, lk.c,
                     <<error_condition(resource, "missing zone", "unable to resolve zone")>>,
                     in, "missing zone")
            ELSE Persist(lk.id,
                         update_dns_record_and_wait(lk.c,
                             [zone |-> [kind |-> "Identifier", v |-> lk.id],
                              name |-> resource.spec.name, content |-> content.v], in.oc))
        Resolve(content, zone_ref) ==
            IF content.tag = "panic"
            THEN Applied(c, "panic", "panic", <<>>, FALSE, Err(c))
            ELSE IF content.tag = "Err"
            THEN Applied(c, "err", "content error", <<>>, FALSE, Err(c))
            ELSE IF content.tag = "None"
            THEN update_conditions(resource, c,
                     <<error_condition(resource, "missing content", "unable to resolve content")>>,
                     in, "missing content")
            ELSE IF zone_ref.tag = "Err"
            THEN Applied(c, "err", "zone error", <<>>, FALSE, Err(c))
            ELSE IF zone_ref.tag = "None"
            THEN update_conditions(resource, c,
                     <<error_condition(resource, "missing zone", "unable to resolve zone reference")>>,
                     in, "missing zone")
            ELSE Update(content,
                        lookup_id(c, [kind |-> IF resource.spec.zone.kind = "Name"
                                               THEN "Name" ELSE "Identifier",
                                      v |-> zone_ref.v], in.oc))
    IN  IF in.k8s = "get"
        THEN Applied(c, "err", "get error", <<>>, FALSE, Err(c))
        ELSE IF existing # <<>> /\ existing[1].spec.name # resource.spec.name
        THEN Applied(c, "blocked", "delete_and_finalize", <<>>, FALSE, Err(c))
        ELSE Resolve(lookup_content(resource.spec, in.svc),
                     lookup(resource.spec.zone, in.referenced))

\* cleanup that finds the record to delete by the resource's DNS name.
cleanup_by_lookup(resource, c, oc) ==
    LET Deleted(dl) ==
            Applied(dl.c, "ok", IF dl.res = "err" THEN "delete failed" ELSE "deleted",
                    <<>>, FALSE, dl)
        Found(zone_id, ls, i) ==
            IF ls.res = "err" \/ i = 0
            THEN Applied(ls.c, "ok", "delete failed", <<>>, FALSE, ls)
            ELSE Deleted(delete_dns_record(ls.c, zone_id, ls.recs[i].id, oc))
        Listed(zone_id, ls) == Found(zone_id, ls, FindByName(ls.recs, resource.spec.name))
    IN  IF resource.status = <<>> \/ resource.status[1].zone_id \notin ZoneIds
        THEN Applied(c, "ok", "missing status", <<>>, FALSE, Err(c))
        ELSE Listed(resource.status[1].zone_id,
                    list_dns_records(c, resource.status[1].zone_id, oc))

\* cleanup that returns the error of the provider delete.
cleanup_returning_error(resource, c, oc) ==
    LET Deleted(dl) ==
            Applied(dl.c, dl.res, IF dl.res = "err" THEN "delete failed" ELSE "deleted",
                    <<>>, FALSE, dl)
    IN  IF resource.status = <<>>
        THEN Applied(c, "ok", "missing status", <<>>, FALSE, Err(c))
        ELSE Deleted(delete_dns_record(c, resource.status[1].zone_id,
                                       resource.status[1].record_id, oc))

\* cleanup on the resource the reflector handed over: the provider delete of
\* the ids in its status; an error of the delete is logged and dropped.
cleanup(resource, c, oc) ==
    LET Deleted(dl) ==
            Applied(dl.c, "ok", IF dl.res = "err" THEN "delete failed" ELSE "deleted",
                    <<>>, FALSE, dl)
    IN  IF resource.status = <<>>
        THEN Applied(c, "ok", "missing status", <<>>, FALSE, Err(c))
        ELSE Deleted(delete_dns_record(c, resource.status[1].zone_id,
                                       resource.status[1].record_id, oc))

\* --------------------------------------------------------- main.rs

\* HTTP status codes a failing call can answer with.
Codes == {404, 409, 500}

\* ReconcileError of a failed apply, by the `?` that returned it: the get of
\* the object gives a kube::Error (Kube); every lookup and every provider call
\* gives an eyre::Error and both patches are wrapped by .context() into one
\* (Other), which carries the status code in its text only.
ReconcileError(branch, code) ==
    IF branch = "get error" THEN [kind |-> "Kube", code |-> code]
    ELSE [kind |-> "Other", code |-> 0]

\* The requeue delays: Action::requeue of reconcile and of error_policy, in seconds.
RequeueNormal == 5 * 60
RequeueError == 15

\* The closure of reconcile on the result of apply or cleanup: Kube Api errors
\* 409 and 404 and Deletion errors are logged, every other error is returned.
reconcile(res, err) ==
    IF res = "err" /\ ~(err.kind = "Kube" /\ err.code \in {409, 404}) /\ err.kind # "Deletion"
    THEN "err"
    ELSE "ok"

\* What the controller does with the result of reconcile: the requeue it
\* returned, or the one of error_policy.
Requeue(result) == IF result = "err" THEN RequeueError ELSE RequeueNormal

\* ------------------------------------------------------ dns_check.rs

\* dns::lookup::resolve: the record types it queries; any other gives Ok(None).
Resolvable == {"A", "AAAA", "CNAME", "MX", "TXT", "NS"}
resolve(ty, answer) == IF ty \in Resolvable THEN answer ELSE [tag |-> "None", v |-> {}]

\* The answers of the nameserver, stringified: a query error or a list of texts.
AnswerTexts == {"c1", "10.0.0.1"}
Answers == { [tag |-> "Err", v |-> {}] } \cup { Some(a) : a \in SUBSET AnswerTexts }

\* A check that was skipped, and why: nothing compared, the map as it was.
Skipped(lookup_success, branch) ==
    [completed |-> FALSE, content |-> "", answers |-> {}, matches |-> FALSE, emitted |-> FALSE,
     map |-> lookup_success, branch |-> branch]

\* The body of the checker's loop for one resource that emits a trigger on
\* every match.
check_resource_emitting_on_match(resource, lookup_success, svc, answer) ==
    LET content == lookup_content(resource.spec, svc)
        dns_record_data == resolve(unwrap_or_default(resource.spec.ty), answer)
    IN  IF resource.status = <<>> THEN Skipped(lookup_success, "no status")
        ELSE IF content.tag # "Some" THEN Skipped(lookup_success, "no content")
        ELSE IF dns_record_data.tag = "None" THEN Skipped(lookup_success, "unsupported type")
        ELSE IF dns_record_data.tag = "Err" THEN Skipped(lookup_success, "query error")
        ELSE LET matches == content.v \in dns_record_data.v
             IN  [completed |-> TRUE, content |-> content.v,
                  answers |-> dns_record_data.v, matches |-> matches, emitted |-> matches,
                  map |-> [lookup_success EXCEPT ![ResourceKey] = <<matches>>],
                  branch |-> "checked"]

\* The body of the checker's loop for one resource that records a resource
\* without content as not matching.
check_resource_recording_no_content(resource, lookup_success, svc, answer) ==
    LET content == lookup_content(resource.spec, svc)
        dns_record_data == resolve(unwrap_or_default(resource.spec.ty), answer)
        matched_before == IF lookup_success[ResourceKey] = <<>> THEN FALSE
                          ELSE lookup_success[ResourceKey][1]
    IN  IF resource.status = <<>> THEN Skipped(lookup_success, "no status")
        ELSE IF content.tag # "Some"
             THEN [Skipped([lookup_success EXCEPT ![ResourceKey] = <<FALSE>>], "no content")
                        EXCEPT !.emitted = matched_before]
        ELSE IF dns_record_data.tag = "None" THEN Skipped(lookup_success, "unsupported type")
        ELSE IF dns_record_data.tag = "Err" THEN Skipped(lookup_success, "query error")
        ELSE LET matches == content.v \in dns_record_data.v
             IN  [completed |-> TRUE, content |-> content.v,
                  answers |-> dns_record_data.v, matches |-> matches,
                  emitted |-> matched_before # matches,
                  map |-> [lookup_success EXCEPT ![ResourceKey] = <<matches>>],
                  branch |-> "checked"]

\* The body of the checker's loop for one resource that keeps entries for
\* matching resources only.
check_resource_keeping_matches_only(resource, lookup_success, svc, answer) ==
    LET content == lookup_content(resource.spec, svc)
        dns_record_data == resolve(unwrap_or_default(resource.spec.ty), answer)
    IN  IF resource.status = <<>> THEN Skipped(lookup_success, "no status")
        ELSE IF content.tag # "Some" THEN Skipped(lookup_success, "no content")
        ELSE IF dns_record_data.tag = "None" THEN Skipped(lookup_success, "unsupported type")
        ELSE IF dns_record_data.tag = "Err" THEN Skipped(lookup_success, "query error")
        ELSE LET matches == content.v \in dns_record_data.v
                 matched_before == IF lookup_success[ResourceKey] = <<>> THEN FALSE
                                   ELSE lookup_success[ResourceKey][1]
             IN  [completed |-> TRUE, content |-> content.v,
                  answers |-> dns_record_data.v, matches |-> matches,
                  emitted |-> matched_before # matches,
                  map |-> [lookup_success EXCEPT ![ResourceKey] = IF matches THEN <<TRUE>> ELSE <<>>],
                  branch |-> "checked"]

\* The body of the checker's loop for one resource: the check it made and the
\* map it leaves. .ok().flatten() turns a failed content lookup into none;
\* every `continue` leaves the map as it was.
check_resource(resource, lookup_success, svc, answer) ==
    LET content == lookup_content(resource.spec, svc)
        dns_record_data == resolve(unwrap_or_default(resource.spec.ty), answer)
    IN  IF resource.status = <<>> THEN Skipped(lookup_success, "no status")
        ELSE IF content.tag # "Some" THEN Skipped(lookup_success, "no content")
        ELSE IF dns_record_data.tag = "None" THEN Skipped(lookup_success, "unsupported type")
        ELSE IF dns_record_data.tag = "Err" THEN Skipped(lookup_success, "query error")
        ELSE LET matches == content.v \in dns_record_data.v
                 matched_before == IF lookup_success[ResourceKey] = <<>> THEN FALSE
                                   ELSE lookup_success[ResourceKey][1]
                 changed == matched_before # matches
             IN  [completed |-> TRUE, content |-> content.v,
                  answers |-> dns_record_data.v, matches |-> matches, emitted |-> changed,
                  map |-> [lookup_success EXCEPT ![ResourceKey] = <<matches>>],
                  branch |-> "checked"]

\* The checker between two awaits: pc is "select" (in tokio::select!), "loop"
\* (at the head of the for loop), "lookup" (awaiting lookup_content),
\* "resolve" (awaiting dns_lookup::resolve), "yield" (suspended in yield until
\* the stream is polled again) or "panicked"; list holds the resources still
\* to check, svc the Service the content lookup met, guard whether the
\* MutexGuard of dns_lookup_success is alive.
NoChecker == [pc |-> "off", list |-> <<>>, svc |-> NoService, guard |-> FALSE]

\* The end of the loop body and every `continue`: on to the next resource, or
\* back to select! after the last; the guard is dropped.
Continue(list) ==
    [NoChecker EXCEPT !.pc = IF list = <<>> THEN "select" ELSE "loop", !.list = list]

\* No request of its own, no resources listed and no checker loop: the
\* specifications that do not step through them leave them out.
NoTasks ==
    response = NoRequest /\ cluster = <<>> /\ checker = NoChecker /\ callers = <<>>


\* No controller and no resource: the specifications of the client alone
\* leave them out.
NoController ==
    /\ obj = <<>>
    /\ store = <<>>
    /\ reconciler = "off"
    /\ do_dns_check = FALSE
    /\ dns_lookup_success = [key \in Keys |-> <<>>]
    /\ dns_check_tx = <<>>
    /\ patched = <<>>

\* ------------------------------------------------------------- actions

NoCall ==
    [op |-> "none", k |-> 0, time |-> 0, zone |-> "", name |-> "", content |-> "", id |-> 0,
     res |-> "ok", zid |-> "", zones |-> <<>>, recs |-> <<>>, calls |-> <<>>, branch |-> "",
     completed |-> FALSE, answers |-> {}, matches |-> FALSE, emitted |-> FALSE,
     code |-> 0, requeue |-> 0, svc |-> NoService, referenced |-> NoObject]

\* Store the client and provider state a call left behind, and record the call:
\* its name and arguments, the time it was issued, its result (res, and the
\* zone id it resolved, the zones or the records it returned) and the provider
\* requests it issued; k flips on every call.
Returned(r, op, zone, name, content, id, branch) ==
    [NoCall EXCEPT !.op = op, !.k = 1 - last.k, !.time = now, !.zone = zone,
                   !.name = name, !.content = content, !.id = id, !.res = r.res,
                   !.zid = r.id, !.zones = r.zones, !.recs = r.recs,
                   !.calls = r.c.calls, !.branch = branch]

Stored(r) ==
    /\ list_zone_cache' = r.c.zc
    /\ list_dns_records_cache' = r.c.rc
    /\ provRecs' = r.c.recs
    /\ nextId' = r.c.nid
    /\ UNCHANGED <<now, provZones, inputs>>

Return(r, op, zone, name, content, id, branch) ==
    /\ Stored(r)
    /\ last' = Returned(r, op, zone, name, content, id, branch)

\* A call made on the client directly.
Finish(r, op, zone, name, content, id) ==
    /\ Return(r, op, zone, name, content, id, "")
    /\ UNCHANGED <<selVars, taskVars, ctlVars>>

Advance(limit) ==
    /\ now < limit
    /\ now' = now + 1
    /\ UNCHANGED <<provZones, provRecs, nextId, list_zone_cache, list_dns_records_cache, last, inputs,
                   selVars, taskVars, ctlVars>>

Tick == Advance(MaxTime)

\* The provider's zone listing changes under the client (a zone is added or removed).
ProviderZonesChange ==
    /\ \E zl \in ZoneListings \ {provZones} : provZones' = zl
    /\ last' = [NoCall EXCEPT !.k = 1 - last.k]
    /\ UNCHANGED <<now, provRecs, nextId, list_zone_cache, list_dns_records_cache, inputs, selVars, taskVars, ctlVars>>

ListZones ==
    \E fail \in {"none", "zones"} :
        \E r \in {list_zones(Client, Outcome(fail, FALSE))} :
            Finish(r, "list_zones", "", "", "", 0)

ListDnsRecords ==
    \E z \in ZoneIds, fail \in {"none", "list"} :
        \E r \in {[list_dns_records(Client, z, Outcome(fail, FALSE)) EXCEPT !.id = z]} :
            Finish(r, "list_dns_records", z, "", "", 0)

CreateDnsRecord ==
    /\ nextId <= MaxId
    /\ \E zone \in ZoneArgs, name \in inputs.names, content \in inputs.contents,
          oc \in CreateOutcomes({"none", "zones", "create"}) :
        \E r \in {create_dns_record(Client, [zone |-> zone, name |-> name, content |-> content], oc)} :
            Finish(r, "create_dns_record", zone.v, name, content, 0)

DeleteDnsRecord ==
    \E z \in ZoneIds, id \in 1..MaxId, fail \in {"none", "delete"} :
        \E r \in {delete_dns_record(Client, z, id, Outcome(fail, FALSE))} :
            Finish(r, "delete_dns_record", z, "", "", id)

UpdateDnsRecordAndWait ==
    /\ nextId <= MaxId
    /\ \E zone \in ZoneArgs, name \in inputs.names, content \in inputs.contents,
          oc \in CreateOutcomes(Failures) :
        \E r \in {update_dns_record_and_wait(Client,
                        [zone |-> zone, name |-> name, content |-> content], oc)} :
            Finish(r, "update_dns_record_and_wait", zone.v, name, content, 0)

\* ------------------------------------------------------ specifications

EmptyCache == [z \in ZoneIds |-> <<>>]

\* The provider client over time: an empty zone whose provider has handed out
\* all but the last two record ids already; CloudflareApi::new leaves both
\* caches empty.
InitCache ==
    /\ now = 0
    /\ provZones \in ZoneListings
    /\ provRecs = [z \in ZoneIds |-> <<>>]
    /\ nextId = MaxId - 1
    /\ list_zone_cache = <<>>
    /\ list_dns_records_cache = EmptyCache
    /\ last = NoCall
    /\ inputs = [names |-> {"n1"}, contents |-> {"c1"}, answers |-> {}, failures |-> NoFailures]
    /\ sel = NoSelect
    /\ NoTasks
    /\ NoController

SpecCache ==
    InitCache /\ [][ \/ Tick
                     \/ ProviderZonesChange
                     \/ ListZones
                     \/ ListDnsRecords
                     \/ CreateDnsRecord
                     \/ DeleteDnsRecord ]_vars

\* The zones the upsert may meet: up to two different records, put there by
\* anyone, possibly both under the same name (the provider keeps several
\* records per name).
InitialRecords ==
    { [id |-> 1, name |-> n, content |-> c] : n \in Names, c \in ForeignContents }
        \cup { [id |-> 1, name |-> n, content |-> "c1"] : n \in Names }
InitialZones ==
    { <<>> } \cup { <<r>> : r \in InitialRecords }
        \cup { <<p[1], [p[2] EXCEPT !.id = 2]>> :
                    p \in { q \in InitialRecords \X InitialRecords : q[1] # q[2] } }

InitUpsert ==
    /\ now = 0
    /\ provZones = <<[id |-> "z1", name |-> "a.com"]>>
    /\ provRecs \in [ZoneIds -> InitialZones]
    /\ nextId = 3
    /\ list_zone_cache = <<>>
    /\ list_dns_records_cache = EmptyCache
    /\ last = NoCall
    /\ inputs = [names |-> Names, contents |-> Contents, answers |-> {}, failures |-> NoFailures]
    /\ sel = NoSelect
    /\ NoTasks
    /\ NoController

SpecUpsert ==
    InitUpsert /\ [][ListDnsRecords \/ UpdateDnsRecordAndWait]_vars

\* cloudflare_api_request on every response, for every result type asked for.
Request ==
    /\ ~response.done
    /\ response' = [response EXCEPT !.done = TRUE,
                        !.returned = cloudflare_api_request(response.R, response.res)]
    /\ UNCHANGED <<apiVars, selVars, cluster, checker, callers, ctlVars>>

InitRequest ==
    /\ now = 0
    /\ provZones = <<>>
    /\ provRecs = [z \in ZoneIds |-> <<>>]
    /\ nextId = 1
    /\ list_zone_cache = <<>>
    /\ list_dns_records_cache = EmptyCache
    /\ last = NoCall
    /\ inputs = [names |-> {}, contents |-> {}, answers |-> {}, failures |-> NoFailures]
    /\ sel = NoSelect
    /\ \E R \in {"Vec", "DnsRecordInfo", "Value"}, res \in Responses :
            response = [NoRequest EXCEPT !.R = R, !.res = res]
    /\ cluster = <<>> /\ checker = NoChecker /\ callers = <<>>
    /\ NoController

SpecRequest == InitRequest /\ [][Request]_vars

\* select_ip on every candidate list of up to MaxIps addresses and every hint.
SelectIp ==
    /\ ~sel.done
    /\ sel' = [sel EXCEPT !.done = TRUE, !.res = select_ip(sel.ips, sel.record_type)]
    /\ UNCHANGED <<apiVars, taskVars, ctlVars>>

CandidateLists == UNION { [1..n -> IpAddrs] : n \in 0..MaxIps }

InitSelect ==
    /\ now = 0
    /\ provZones = <<>>
    /\ provRecs = [z \in ZoneIds |-> <<>>]
    /\ nextId = 1
    /\ list_zone_cache = <<>>
    /\ list_dns_records_cache = EmptyCache
    /\ last = NoCall
    /\ inputs = [names |-> {}, contents |-> {}, answers |-> {}, failures |-> NoFailures]
    /\ \E ips \in CandidateLists, rt \in RecordTypeHints :
            sel = [NoSelect EXCEPT !.ips = ips, !.record_type = rt]
    /\ NoTasks
    /\ NoController

SpecSelect == InitSelect /\ [][SelectIp]_vars

\* The user changes the DNS name of the resource.
Rename ==
    /\ ~obj.deleting
    /\ \E name \in Names \ {obj.spec.name} : obj' = [obj EXCEPT !.spec.name = name]
    /\ UNCHANGED <<apiVars, selVars, taskVars, store, reconciler, do_dns_check, dns_lookup_success,
                   dns_check_tx, patched>>

\* The reflector receives the watch event of the object's last change.
Sync ==
    /\ reconciler # "panicked"
    /\ store # obj
    /\ store' = obj
    /\ UNCHANGED <<apiVars, selVars, taskVars, obj, reconciler, do_dns_check, dns_lookup_success,
                   dns_check_tx, patched>>

\* reconcile of a resource without the finalizer: the finalizer helper adds it
\* (a JSON patch that tests the finalizers it read) and ends the reconcile.
AddFinalizer ==
    /\ reconciler = "idle"
    /\ ~store.deleting /\ ~store.finalizer /\ ~obj.finalizer
    /\ ~obj.deleting
    /\ obj' = [obj EXCEPT !.finalizer = TRUE]
    /\ UNCHANGED <<apiVars, selVars, taskVars, store, reconciler, do_dns_check, dns_lookup_success,
                   dns_check_tx, patched>>

\* The status codes the failing call of an apply can answer with: get_opt
\* turns a 404 into Ok(None), and the object of the model exists.
CodesOf(fail) ==
    IF fail = "none" THEN {0}
    ELSE IF fail = "get" THEN Codes \ {404}
    ELSE Codes

\* The record of an apply or cleanup, with the status code of the call that
\* failed and the requeue the controller is left with (none when the
\* reconcile did not return).
Reconciled(r, code, returned) ==
    [returned EXCEPT !.code = IF r.res = "err" THEN code ELSE 0,
                     !.requeue = IF r.res \in {"ok", "err"}
                                 THEN Requeue(reconcile(r.res, ReconcileError(r.branch, code)))
                                 ELSE 0]

\* The CheckSingleRecord request of an apply; persisted tells whether the
\* object carried a status when the request was sent.
DnsCheckRequest(persisted) == [key |-> ResourceKey, persisted |-> persisted]

\* reconcile of a resource with the finalizer that is not being deleted:
\* Event::Apply. A conflict leaves the object marked for deletion and the
\* reconcile waiting in delete_and_finalize for the object to go, which its
\* finalizer prevents; a panic ends the process. An apply that sends a check
\* request into the full channel waits in send, after the provider calls and
\* before the patches, until the checker has taken a request out.
Apply ==
    /\ reconciler = "idle"
    /\ ~store.deleting /\ store.finalizer
    /\ nextId <= MaxId
    /\ \E fail \in inputs.failures, svc \in ServicesOf(store.spec),
          referenced \in ReferencedOf(store.spec) :
        \E code \in CodesOf(fail),
           r \in {apply(store, <<obj>>, Client, do_dns_check, dns_lookup_success,
                        ApplyInput(fail, svc, referenced))} :
            /\ Stored(r)
            /\ IF r.send /\ Len(dns_check_tx) >= MaxQueued
               THEN /\ last' = [Returned(r, "apply", store.spec.zone.v, store.spec.name, "", 0,
                                         "send")
                                EXCEPT !.res = "blocked", !.svc = svc, !.referenced = referenced]
                    /\ reconciler' = "send"
                    /\ patched' = <<[status |-> r.status, res |-> r.res, branch |-> r.branch,
                                     code |-> code]>>
                    /\ UNCHANGED <<obj, dns_check_tx>>
               ELSE /\ last' = [Reconciled(r, code,
                                           Returned(r, "apply", store.spec.zone.v, store.spec.name,
                                                    "", 0, r.branch))
                                EXCEPT !.svc = svc, !.referenced = referenced]
                    /\ obj' = IF r.branch = "delete_and_finalize" THEN [obj EXCEPT !.deleting = TRUE]
                              ELSE IF r.status # <<>> THEN [obj EXCEPT !.status = r.status]
                              ELSE obj
                    /\ reconciler' = IF r.branch \in {"delete_and_finalize", "panic"}
                                     THEN (IF r.branch = "panic" THEN "panicked" ELSE r.branch)
                                     ELSE "idle"
                    /\ dns_check_tx' = IF r.send
                                       THEN Append(dns_check_tx, DnsCheckRequest(obj.status # <<>>))
                                       ELSE dns_check_tx
                    /\ UNCHANGED patched
    /\ UNCHANGED <<selVars, taskVars, store, do_dns_check, dns_lookup_success>>

\* The channel has room again: the send of the waiting apply completes and the
\* apply goes on to its two patches.
ApplySent ==
    /\ reconciler = "send"
    /\ Len(dns_check_tx) < MaxQueued
    /\ dns_check_tx' = Append(dns_check_tx, DnsCheckRequest(obj.status # <<>>))
    /\ obj' = IF patched[1].status # <<>> THEN [obj EXCEPT !.status = patched[1].status] ELSE obj
    /\ reconciler' = "idle"
    /\ patched' = <<>>
    /\ last' = [NoCall EXCEPT !.op = "apply sent", !.k = 1 - last.k, !.time = now,
                               !.name = store.spec.name, !.res = patched[1].res,
                               !.branch = patched[1].branch,
                               !.code = IF patched[1].res = "err" THEN patched[1].code ELSE 0,
                               !.requeue = Requeue(reconcile(patched[1].res,
                                                ReconcileError(patched[1].branch, patched[1].code)))]
    /\ UNCHANGED <<now, provZones, provRecs, nextId, list_zone_cache, list_dns_records_cache, inputs,
                   selVars, taskVars, store, do_dns_check, dns_lookup_success>>

\* The user deletes the resource: the API server marks it for deletion and
\* keeps it while it carries the finalizer (without one it is gone at once).
Delete ==
    /\ ~obj.deleting
    /\ obj' = [obj EXCEPT !.deleting = TRUE]
    /\ UNCHANGED <<apiVars, selVars, taskVars, store, reconciler, do_dns_check, dns_lookup_success,
                   dns_check_tx, patched>>

\* The object is gone from the API server: marked for deletion, no finalizer.
Deleted(resource) == resource.deleting /\ ~resource.finalizer

\* reconcile of a resource with the finalizer that is being deleted:
\* Event::Cleanup. When the closure returns Ok the finalizer helper removes the
\* finalizer (a JSON patch that tests the finalizer it read, which fails when
\* the object has lost it already), and the API server lets the object go.
Cleanup ==
    /\ reconciler = "idle"
    /\ store.deleting /\ store.finalizer
    /\ \E fail \in inputs.failures :
        \E code \in CodesOf(fail),
           r \in {cleanup(store, Client, Outcome(fail, FALSE))} :
            /\ Stored(r)
            /\ last' = [Reconciled(r, code,
                                   Returned(r, "cleanup",
                                            unwrap_or_default_status(store).zone_id,
                                            store.spec.name, "",
                                            unwrap_or_default_status(store).record_id, r.branch))
                         EXCEPT !.requeue = IF obj.finalizer THEN @ ELSE RequeueError]
            /\ obj' = IF reconcile(r.res, ReconcileError(r.branch, code)) = "ok"
                      THEN [obj EXCEPT !.finalizer = FALSE]
                      ELSE obj
    /\ UNCHANGED <<selVars, taskVars, store, reconciler, do_dns_check, dns_lookup_success, dns_check_tx,
                   patched>>

\* One resource of a check cycle: the check is recorded, the map updated. A
\* panic of the content lookup ends the process.
CheckResource(resource) ==
    \E svc \in ServicesOf(resource.spec), answer \in inputs.answers :
        IF lookup_content(resource.spec, svc).tag = "panic" /\ resource.status # <<>>
        THEN /\ reconciler' = "panicked"
             /\ last' = [NoCall EXCEPT !.op = "check", !.k = 1 - last.k, !.time = now,
                                        !.branch = "panic"]
             /\ UNCHANGED dns_lookup_success
        ELSE \E r \in {check_resource(resource, dns_lookup_success, svc, answer)} :
                 /\ dns_lookup_success' = r.map
                 /\ last' = [NoCall EXCEPT !.op = "check", !.k = 1 - last.k, !.time = now,
                                            !.content = r.content, !.completed = r.completed,
                                            !.branch = r.branch,
                                            !.answers = r.answers, !.matches = r.matches,
                                            !.emitted = r.emitted]
                 /\ UNCHANGED reconciler

\* The checker's timer fires: it lists the resources and checks each; a
\* resource that is gone is not listed.
CheckAll ==
    /\ do_dns_check
    /\ reconciler # "panicked"
    /\ ~Deleted(obj)
    /\ CheckResource(obj)
    /\ UNCHANGED <<now, provZones, provRecs, nextId, list_zone_cache, list_dns_records_cache, inputs,
                   selVars, taskVars, obj, store, do_dns_check, dns_check_tx, patched>>

\* The checker receives a CheckSingleRecord request: it gets the resource and
\* checks it; when the get fails (as it does for a resource that is gone) the
\* request is dropped. The apply sends the
\* request before its patches, so the get of a request sent for an object
\* without status can be served before the status is there.
CheckSingleRecord ==
    /\ do_dns_check
    /\ reconciler # "panicked"
    /\ dns_check_tx # <<>>
    /\ dns_check_tx' = Tail(dns_check_tx)
    /\ \/ /\ ~Deleted(obj)
          /\ CheckResource(obj)
       \/ /\ ~Deleted(obj)
          /\ ~Head(dns_check_tx).persisted
          /\ CheckResource([obj EXCEPT !.status = <<>>])
       \/ /\ "get" \in inputs.failures \/ Deleted(obj)
          /\ last' = [NoCall EXCEPT !.op = "check", !.k = 1 - last.k, !.time = now,
                                     !.res = "err", !.branch = "get error"]
          /\ UNCHANGED <<reconciler, dns_lookup_success>>
    /\ UNCHANGED <<now, provZones, provRecs, nextId, list_zone_cache, list_dns_records_cache, inputs,
                   selVars, taskVars, obj, store, do_dns_check, patched>>

Clock == Advance(MaxClock)

\* The record of a step of the checker's loop on the resource under key.
Checked(key, svc, r) ==
    [NoCall EXCEPT !.op = "check", !.k = 1 - last.k, !.time = now, !.name = key, !.svc = svc,
                   !.content = r.content, !.completed = r.completed, !.branch = r.branch,
                   !.answers = r.answers, !.matches = r.matches, !.emitted = r.emitted]

\* The timer of select! fires: the resources are listed and the for loop
\* starts on them; when the list fails the loop goes back to select!.
CheckerTick ==
    /\ checker.pc = "select"
    /\ \/ /\ checker' = Continue(cluster)
          /\ last' = [NoCall EXCEPT !.op = "list resources", !.k = 1 - last.k, !.time = now]
       \/ /\ "list resources" \in inputs.failures
          /\ last' = [NoCall EXCEPT !.op = "list resources", !.k = 1 - last.k, !.time = now,
                                     !.res = "err"]
          /\ UNCHANGED checker
    /\ UNCHANGED <<now, provZones, provRecs, nextId, list_zone_cache, list_dns_records_cache, inputs,
                   selVars, response, cluster, callers, ctlVars>>

\* select! receives a CheckSingleRecord request: the resource is fetched and
\* the for loop runs on it alone; when the get fails the loop goes back to
\* select!.
CheckerRecv ==
    /\ checker.pc = "select"
    /\ dns_check_tx # <<>>
    /\ dns_check_tx' = Tail(dns_check_tx)
    /\ \/ \E i \in 1..Len(cluster) :
            /\ cluster[i].key = Head(dns_check_tx).key
            /\ checker' = Continue(<<cluster[i]>>)
            /\ last' = [NoCall EXCEPT !.op = "get resource", !.k = 1 - last.k, !.time = now]
       \/ /\ "get" \in inputs.failures
          /\ last' = [NoCall EXCEPT !.op = "get resource", !.k = 1 - last.k, !.time = now,
                                     !.res = "err"]
          /\ UNCHANGED checker
    /\ UNCHANGED <<now, provZones, provRecs, nextId, list_zone_cache, list_dns_records_cache, inputs,
                   selVars, response, cluster, callers, obj, store, reconciler, do_dns_check,
                   dns_lookup_success, patched>>

\* The loop body on the head of the list, given the Service its content
\* lookup met and the nameserver's answer: the map is updated under the
\* resource's key, and when the match changed the stream yields the trigger,
\* with the guard alive until the loop body ends.
Completed(head, svc, answer) ==
    \E r \in {check_resource(head.resource,
                             [dns_lookup_success EXCEPT ![ResourceKey] = dns_lookup_success[head.key]],
                             svc, answer)} :
        /\ dns_lookup_success' = [dns_lookup_success EXCEPT ![head.key] = r.map[ResourceKey]]
        /\ checker' = IF r.emitted THEN [checker EXCEPT !.pc = "yield", !.guard = TRUE]
                      ELSE Continue(Tail(checker.list))
        /\ last' = Checked(head.key, svc, r)

\* lookup_content has returned, having met the Service svc: a panic ends the
\* process; with content of a type resolve queries the query is sent; else
\* the loop body ends without one.
Looked(head, svc) ==
    \E content \in {lookup_content(head.resource.spec, svc)} :
        IF content.tag = "panic"
        THEN /\ checker' = [checker EXCEPT !.pc = "panicked"]
             /\ last' = Checked(head.key, svc, Skipped(dns_lookup_success, "panic"))
             /\ UNCHANGED dns_lookup_success
        ELSE IF content.tag = "Some" /\ unwrap_or_default(head.resource.spec.ty) \in Resolvable
        THEN /\ checker' = [checker EXCEPT !.pc = "resolve", !.svc = svc]
             /\ UNCHANGED <<last, dns_lookup_success>>
        ELSE Completed(head, svc, [tag |-> "Err", v |-> {}])

\* The head of the for loop up to the next call that waits: a resource
\* without name or namespace or without status is passed over; a literal
\* content is there at once, the content of a Service is fetched.
CheckerNext ==
    /\ checker.pc = "loop"
    /\ \E head \in {Head(checker.list)} :
        IF ~head.named
        THEN /\ checker' = Continue(Tail(checker.list))
             /\ last' = Checked(head.key, NoService, Skipped(dns_lookup_success, "no name"))
             /\ UNCHANGED dns_lookup_success
        ELSE IF head.resource.status = <<>>
        THEN Completed(head, NoService, [tag |-> "Err", v |-> {}])
        ELSE IF head.resource.spec.content.kind = "Value"
        THEN Looked(head, NoService)
        ELSE /\ checker' = [checker EXCEPT !.pc = "lookup"]
             /\ UNCHANGED <<last, dns_lookup_success>>
    /\ UNCHANGED <<now, provZones, provRecs, nextId, list_zone_cache, list_dns_records_cache, inputs,
                   selVars, response, cluster, callers, obj, store, reconciler, do_dns_check, dns_check_tx,
                   patched>>

\* The get of the Service returns and with it lookup_content.
LookupCompletes ==
    /\ checker.pc = "lookup"
    /\ \E svc \in Services : Looked(Head(checker.list), svc)
    /\ UNCHANGED <<now, provZones, provRecs, nextId, list_zone_cache, list_dns_records_cache, inputs,
                   selVars, response, cluster, callers, obj, store, reconciler, do_dns_check, dns_check_tx,
                   patched>>

\* resolve returns for a type it queries, with an error or an answer.
ResolveCompletes ==
    /\ checker.pc = "resolve"
    /\ \E answer \in inputs.answers : Completed(Head(checker.list), checker.svc, answer)
    /\ UNCHANGED <<now, provZones, provRecs, nextId, list_zone_cache, list_dns_records_cache, inputs,
                   selVars, response, cluster, callers, obj, store, reconciler, do_dns_check, dns_check_tx,
                   patched>>

\* The controller polls the stream again: the loop body ends behind the yield,
\* which drops the guard.
CheckerResume ==
    /\ checker.pc = "yield"
    /\ checker' = Continue(Tail(checker.list))
    /\ UNCHANGED <<apiVars, selVars, response, cluster, callers, ctlVars>>

\* let pending of an apply of the resource r1 that runs beside the checker:
\* it takes the lock for the one statement.
ApplyPending ==
    /\ ~checker.guard
    /\ last' = [NoCall EXCEPT !.op = "pending", !.k = 1 - last.k, !.time = now, !.name = ResourceKey,
                               !.branch = IF pending(do_dns_check, dns_lookup_success)
                                          THEN "pending" ELSE "ready"]
    /\ UNCHANGED <<now, provZones, provRecs, nextId, list_zone_cache, list_dns_records_cache, inputs,
                   selVars, taskVars, ctlVars>>


\* The resources the user creates: a literal content or a service reference;
\* the zone by id, by name, or by an id read from a config map.
ZoneById == ZoneSpec("Id", "Value", "z1")
ZoneByName == ZoneSpec("Name", "Value", "a.com")
ZoneByReference == ZoneSpec("Id", "Reference", "cm")
ResourceSpec(ty, content, zone) == [name |-> "n1", ty |-> ty, content |-> content, zone |-> zone]

\* The controller starts on a resource the user has just created, in an empty
\* zone whose provider has handed out all but the last two record ids.
InitController(specs, zones, checks, failures, answers) ==
    /\ now = 0
    /\ provZones \in zones
    /\ provRecs = [z \in ZoneIds |-> <<>>]
    /\ nextId = MaxId - 1
    /\ list_zone_cache = <<>>
    /\ list_dns_records_cache = EmptyCache
    /\ last = NoCall
    /\ inputs = [names |-> {}, contents |-> {}, answers |-> answers, failures |-> failures]
    /\ sel = NoSelect
    /\ NoTasks
    /\ \E spec \in specs : obj = Resource(spec) /\ store = Resource(spec)
    /\ reconciler = "idle"
    /\ do_dns_check \in checks
    /\ dns_lookup_success = [key \in Keys |-> <<>>]
    /\ dns_check_tx = <<>>
    /\ patched = <<>>

\* Reconciles of a resource whose DNS name the user changes; no call fails.
SpecApply ==
    /\ InitController({ ResourceSpec("None", content, zone) :
                            content \in {ValueContent("c1"), ServiceContent},
                            zone \in {ZoneById, ZoneByName} },
                       ZoneListings, {FALSE}, NoFailures, {})
    /\ [][Rename \/ Sync \/ AddFinalizer \/ Apply]_vars

\* Reconciles of a resource the user deletes at any time; the provider delete
\* of the cleanup can fail.
SpecCleanup ==
    /\ InitController({ ResourceSpec("None", content, ZoneById) :
                            content \in {ValueContent("c1"), ServiceContent} },
                       { <<[id |-> "z1", name |-> "a.com"]>> }, {FALSE}, {"none", "delete"}, {})
    /\ [][Sync \/ AddFinalizer \/ Apply \/ Delete \/ Cleanup]_vars

\* The same with the controller's scheduling: a watch event is delivered, and
\* a resource marked for deletion that carries the finalizer is reconciled.
SpecCleanupFair == SpecCleanup /\ WF_vars(Sync) /\ WF_vars(Cleanup)

\* The user changes the content of the resource.
Edit ==
    /\ ~obj.deleting
    /\ \E content \in Contents \ {obj.spec.content.v} :
            obj' = [obj EXCEPT !.spec.content = ValueContent(content)]
    /\ UNCHANGED <<apiVars, selVars, taskVars, store, reconciler, do_dns_check, dns_lookup_success,
                   dns_check_tx, patched>>

\* Reconciles in which any one call of an apply fails, to the API server or to
\* the provider, with any status code.
SpecErrors ==
    /\ InitController({ ResourceSpec("None", ValueContent(content), zone) :
                            content \in Contents, zone \in {ZoneById, ZoneByName} },
                       { <<[id |-> "z1", name |-> "a.com"]>> }, {FALSE}, AllFailures, {})
    /\ [][Edit \/ Sync \/ AddFinalizer \/ Apply]_vars

\* Reconciles over time while the checker runs: the Ready condition of the
\* resource as content, zone and propagation come and go. The checker works
\* by its timer here; the requests of the applies stay in the channel.
SpecConditions ==
    /\ InitController({ ResourceSpec("None", ValueContent("c1"), ZoneByReference),
                         ResourceSpec("None", ServiceContent, ZoneById) },
                       { <<[id |-> "z1", name |-> "a.com"]>> }, {TRUE}, NoFailures,
                       { Some({}), Some({"c1", "10.0.0.1"}) })
    /\ [][Clock \/ Sync \/ AddFinalizer \/ Apply \/ CheckAll]_vars

\* The checker on resources of every kind, at each tick and on request, and
\* the controller started without a check interval.
SpecCheck ==
    /\ InitController({ ResourceSpec(ty, content, ZoneById) :
                            ty \in {"None", "AAAA", "SRV"},
                            content \in {ValueContent("c1"), ServiceContent} },
                       { <<[id |-> "z1", name |-> "a.com"]>> }, BOOLEAN, NoFailures, Answers)
    /\ [][ \/ Sync
                     \/ AddFinalizer
                     \/ Apply
                     \/ ApplySent
                     \/ CheckAll
                     \/ CheckSingleRecord ]_vars

\* Reconciles repeated on a resource that nobody edits, in a zone that holds
\* up to two records of others already, with and without the checker.
InitRepeat ==
    /\ now = 0
    /\ provZones = <<[id |-> "z1", name |-> "a.com"]>>
    /\ provRecs \in [ZoneIds -> InitialZones]
    /\ nextId = 3
    /\ list_zone_cache = <<>>
    /\ list_dns_records_cache = EmptyCache
    /\ last = NoCall
    /\ inputs = [names |-> {}, contents |-> {}, answers |-> { Some({}), Some({"c1"}) },
                 failures |-> NoFailures]
    /\ sel = NoSelect
    /\ NoTasks
    /\ \E spec \in { ResourceSpec("None", content, ZoneById) :
                        content \in {ValueContent("c1"), ValueContent("c2"), ServiceContent} } :
            obj = Resource(spec) /\ store = Resource(spec)
    /\ reconciler = "idle"
    /\ do_dns_check \in BOOLEAN
    /\ dns_lookup_success = [key \in Keys |-> <<>>]
    /\ dns_check_tx = <<>>
    /\ patched = <<>>

SpecRepeat ==
    InitRepeat /\ [][ \/ Sync
                      \/ AddFinalizer
                      \/ Apply
                      \/ ApplySent
                      \/ CheckAll
                      \/ CheckSingleRecord ]_vars

\* The controller and the checker at work on a resource nobody edits, with a
\* check interval: the content is literal, or taken from a Service by a
\* resource that gives no type. The timer of the checker keeps firing and
\* select! picks among its ready arms at random, so the checks go on and a
\* waiting request is received; the reflector delivers the watch events; the
\* controller runs the resource again after every requeue (5 minutes,
\* 15 seconds after an error) and on every trigger: weak fairness of Apply,
\* written out with the guard of Apply for its enabledness.
SpecPropagationFair ==
    /\ InitController({ ResourceSpec(ty, ValueContent("c1"), ZoneById) : ty \in {"None", "AAAA", "SRV"} }
                            \cup { ResourceSpec("None", ServiceContent, ZoneById) },
                      { <<[id |-> "z1", name |-> "a.com"]>> }, {TRUE}, NoFailures, Answers)
    /\ [][ \/ Sync
           \/ AddFinalizer
           \/ Apply
           \/ ApplySent
           \/ CheckAll
           \/ CheckSingleRecord ]_vars
    /\ WF_vars(Sync) /\ WF_vars(AddFinalizer) /\ WF_vars(ApplySent)
    /\ WF_vars(CheckAll) /\ WF_vars(CheckSingleRecord)
    /\ \/ []<>~(reconciler = "idle" /\ ~store.deleting /\ store.finalizer /\ nextId <= MaxId)
       \/ []<><<last'.k # last.k /\ last'.op = "apply">>_vars

\* The user creates the resource again, under the same namespace and name,
\* after it is gone.
Recreate ==
    /\ Deleted(obj)
    /\ obj' = Resource(obj.spec)
    /\ UNCHANGED <<apiVars, selVars, taskVars, store, reconciler, do_dns_check, dns_lookup_success,
                   dns_check_tx, patched>>

\* The lives of a resource with a check interval configured: it is created,
\* reconciled, checked, deleted and created again.
SpecLifecycle ==
    /\ InitController({ ResourceSpec("None", ValueContent("c1"), ZoneById) },
                      { <<[id |-> "z1", name |-> "a.com"]>> }, {TRUE}, NoFailures,
                      { Some({}), Some({"c1"}) })
    /\ [][ \/ Sync
           \/ AddFinalizer
           \/ Apply
           \/ ApplySent
           \/ CheckAll
           \/ CheckSingleRecord
           \/ Delete
           \/ Cleanup
           \/ Recreate ]_vars

\* What api.list can return for a key: a resource without name (as the code
\* allows for), one without status, and resources with status whose content
\* is literal or a Service, of a type resolve queries or not.
ListedResources(key) ==
    LET WithStatus(ty, content) ==
            [Resource(ResourceSpec(ty, content, ZoneById))
                EXCEPT !.finalizer = TRUE,
                       !.status = <<[DefaultStatus EXCEPT !.record_id = 3, !.zone_id = "z1",
                                                           !.pending = TRUE]>>]
    IN  { [key |-> key, named |-> FALSE, resource |-> WithStatus("None", ValueContent("c1"))],
          [key |-> key, named |-> TRUE,
           resource |-> Resource(ResourceSpec("None", ValueContent("c1"), ZoneById))] }
        \cup { [key |-> key, named |-> TRUE, resource |-> WithStatus(p[1], p[2])] :
                    p \in { <<"None", ValueContent("c1")>>, <<"SRV", ValueContent("c1")>>,
                            <<"None", ServiceContent>>, <<"AAAA", ServiceContent>> } }

\* The checker at its select!, with a check interval, over up to two resources
\* and with up to one request of an apply waiting.
InitCycle ==
    /\ now = 0
    /\ provZones = <<>>
    /\ provRecs = [z \in ZoneIds |-> <<>>]
    /\ nextId = 1
    /\ list_zone_cache = <<>>
    /\ list_dns_records_cache = EmptyCache
    /\ last = NoCall
    /\ inputs = [names |-> {}, contents |-> {}, answers |-> Answers,
                 failures |-> {"none", "get", "list resources"}]
    /\ sel = NoSelect
    /\ response = NoRequest
    /\ callers = <<>>
    /\ cluster \in { <<a>> : a \in ListedResources("default:r1") }
                    \cup (ListedResources("default:r1") \X ListedResources("default:r2"))
    /\ checker = Continue(<<>>)
    /\ obj = <<>>
    /\ store = <<>>
    /\ reconciler = "off"
    /\ do_dns_check = TRUE
    /\ dns_lookup_success = [key \in Keys |-> <<>>]
    /\ dns_check_tx \in { <<>>, <<DnsCheckRequest(TRUE)>> }
    /\ patched = <<>>

SpecCycle ==
    InitCycle /\ [][ \/ CheckerTick
                     \/ CheckerRecv
                     \/ CheckerNext
                     \/ LookupCompletes
                     \/ ResolveCompletes
                     \/ CheckerResume
                     \/ ApplyPending ]_vars

\* The checker's own steps are taken when they can be: the timer keeps
\* firing, select! picks among its ready arms at random, so a waiting request
\* is received at some visit, and the controller keeps polling the stream.
\* The return of an awaited lookup_content or resolve is up to the API server
\* and the nameserver: the code sets no timeout on either.
SpecCycleFair ==
    /\ SpecCycle
    /\ WF_vars(CheckerTick) /\ SF_vars(CheckerRecv) /\ WF_vars(CheckerNext) /\ WF_vars(CheckerResume)

\* ------------------------------------------- concurrent client calls

\* The tasks (reconciles of different resources) that call the one
\* CloudflareApi. A task between two awaits of its call: op is the method, pc
\* is "idle", "lock" (list_dns_records waiting for the cache lock), "fetch"
\* (its GET is on the way), "fetched" (the provider has answered), "sent" (the
\* POST or DELETE is on the way), "done" (the provider has performed it) or
\* "failed" (it has refused it); guard tells whether the MutexGuard `cache` of
\* list_dns_records is alive, id is the record to delete, started the zone's
\* records at the provider when the call began, records the list the
\* provider answered with.
Callers == 1..MaxCallers
NoCaller ==
    [op |-> "", pc |-> "idle", guard |-> FALSE, id |-> 0, started |-> <<>>, records |-> <<>>]

\* list_dns_records_cache.lock() returns when no guard of it is alive.
Unlocked == \A t \in Callers : ~callers[t].guard

\* list_dns_records that drops the guard before it sends its request.
Missed_dropping_guard(caller) == [caller EXCEPT !.pc = "fetch"]

\* list_dns_records past the cache test that found no fresh entry: the request
\* is sent and awaited with the guard alive.
Missed(caller) == [caller EXCEPT !.pc = "fetch", !.guard = TRUE]

\* A task calls list_dns_records, create_dns_record or delete_dns_record (of
\* a record the zone has) on zone z1.
CallerStart(t) ==
    /\ callers[t].pc = "idle"
    /\ \/ callers' = [callers EXCEPT ![t] = [NoCaller EXCEPT !.op = "list_dns_records", !.pc = "lock",
                                                              !.started = provRecs["z1"]]]
       \/ /\ nextId + Cardinality({u \in Callers : callers[u].op = "create_dns_record"}) <= MaxId
          /\ callers' = [callers EXCEPT ![t] = [NoCaller EXCEPT !.op = "create_dns_record",
                                                                 !.pc = "sent"]]
       \/ \E i \in 1..Len(provRecs["z1"]) :
            callers' = [callers EXCEPT ![t] = [NoCaller EXCEPT !.op = "delete_dns_record",
                                                                !.pc = "sent",
                                                                !.id = provRecs["z1"][i].id]]
    /\ UNCHANGED <<apiVars, selVars, response, cluster, checker, ctlVars>>

\* list_dns_records gets the lock and looks into the cache: a fresh entry is
\* returned, else the records are requested.
ListLocked(t) ==
    /\ callers[t].pc = "lock"
    /\ Unlocked
    /\ \E r \in {list_dns_records(Client, "z1", Outcome("list", FALSE))} :
        IF r.res = "ok"
        THEN /\ callers' = [callers EXCEPT ![t] = NoCaller]
             /\ last' = [Returned(r, "list_dns_records", "z1", "", "", 0, "cached") EXCEPT !.id = t]
        ELSE /\ callers' = [callers EXCEPT ![t] = Missed(@)]
             /\ UNCHANGED last
    /\ UNCHANGED <<now, provZones, provRecs, nextId, list_zone_cache, list_dns_records_cache, inputs,
                   selVars, response, cluster, checker, ctlVars>>

\* The provider answers the GET of a task with the records the zone has then.
ProviderServes(t) ==
    /\ callers[t].pc = "fetch"
    /\ callers' = [callers EXCEPT ![t].pc = "fetched", ![t].records = provRecs["z1"]]
    /\ UNCHANGED <<apiVars, selVars, response, cluster, checker, ctlVars>>

\* The answer arrives: the records go into the cache and are returned, the
\* guard is dropped; when the request failed `?` returns without the insert.
ListFetched(t) ==
    /\ callers[t].pc = "fetched"
    /\ callers[t].guard \/ Unlocked
    /\ callers' = [callers EXCEPT ![t] = NoCaller]
    /\ \E fail \in inputs.failures \cap {"none", "list"} :
        IF fail = "list"
        THEN /\ last' = [Returned(Err(Client), "list_dns_records", "z1", "", "", 0, "fetched")
                            EXCEPT !.id = t]
             /\ UNCHANGED list_dns_records_cache
        ELSE /\ list_dns_records_cache' =
                    [list_dns_records_cache EXCEPT
                        !["z1"] = <<[time |-> now, records |-> callers[t].records]>>]
             /\ last' = [Returned(Ok(Client, <<>>, callers[t].records, "z1"),
                                  "list_dns_records", "z1", "", "", 0, "fetched")
                            EXCEPT !.id = t]
    /\ UNCHANGED <<now, provZones, provRecs, nextId, list_zone_cache, inputs,
                   selVars, response, cluster, checker, ctlVars>>

\* The provider performs the POST or DELETE of a task, or refuses the DELETE
\* of a record that is gone.
ProviderMutates(t) ==
    /\ callers[t].pc = "sent"
    /\ \E r \in { IF callers[t].op = "create_dns_record"
                  THEN create_dns_record(Client, [zone |-> [kind |-> "Identifier", v |-> "z1"],
                                                  name |-> "n1", content |-> "c1"],
                                         Outcome("none", FALSE))
                  ELSE delete_dns_record(Client, "z1", callers[t].id, Outcome("none", FALSE)) } :
        /\ provRecs' = r.c.recs
        /\ nextId' = r.c.nid
        /\ callers' = [callers EXCEPT ![t].pc = IF r.res = "ok" THEN "done" ELSE "failed"]
    /\ UNCHANGED <<now, provZones, list_zone_cache, list_dns_records_cache, last, inputs,
                   selVars, response, cluster, checker, ctlVars>>

\* The answer to the POST or DELETE arrives: create_dns_record invalidates the
\* zone's entry whatever the answer, delete_dns_record after a success only
\* (`?`); invalidate_dns_record_cache takes the lock.
Invalidates(t) ==
    /\ callers[t].pc \in {"done", "failed"}
    /\ callers' = [callers EXCEPT ![t] = NoCaller]
    /\ IF callers[t].op = "delete_dns_record" /\ callers[t].pc = "failed"
       THEN UNCHANGED list_dns_records_cache
       ELSE /\ Unlocked
            /\ list_dns_records_cache' = invalidate_dns_record_cache(Client, "z1").rc
    /\ last' = [NoCall EXCEPT !.op = callers[t].op, !.k = 1 - last.k, !.time = now, !.zone = "z1",
                               !.id = t, !.res = IF callers[t].pc = "done" THEN "ok" ELSE "err"]
    /\ UNCHANGED <<now, provZones, provRecs, nextId, list_zone_cache, inputs,
                   selVars, response, cluster, checker, ctlVars>>

\* Tasks that share the client, on a zone with one record whose provider has
\* one record id left to hand out, within the minute a cache entry lives.
InitCallers ==
    /\ now = 0
    /\ provZones = <<[id |-> "z1", name |-> "a.com"]>>
    /\ provRecs = [z \in ZoneIds |-> <<[id |-> 1, name |-> "n2", content |-> "c0"]>>]
    /\ nextId = MaxId
    /\ list_zone_cache = <<>>
    /\ list_dns_records_cache = EmptyCache
    /\ last = NoCall
    /\ inputs = [names |-> {"n1"}, contents |-> {"c1"}, answers |-> {}, failures |-> {"none", "list"}]
    /\ sel = NoSelect
    /\ response = NoRequest /\ cluster = <<>> /\ checker = NoChecker
    /\ callers = [t \in Callers |-> NoCaller]
    /\ NoController

SpecCallers ==
    InitCallers /\ [][\E t \in Callers : \/ CallerStart(t)
                                        \/ ListLocked(t)
                                        \/ ProviderServes(t)
                                        \/ ListFetched(t)
                                        \/ ProviderMutates(t)
                                        \/ Invalidates(t)]_vars

\* ------------------------------------------- concurrent reconciles

\* The controller reconciles different resources at the same time, one
\* reconcile per resource. cluster holds the resources, callers the position
\* of the reconcile of each between two awaits of apply: pc is "idle",
\* "delete" (update_dns_record_and_wait has listed the records and found one
\* of another content, id), "create" (nothing left under the name), "patch"
\* (the upsert has returned the record in records).

\* apply up to the answer of list_dns_records in update_dns_record_and_wait:
\* the record found under the resource's name decides what follows.
ApplyLists(i) ==
    /\ callers[i].pc = "idle"
    /\ ~cluster[i].resource.deleting
    /\ \E ls \in {list_dns_records(Client, "z1", Outcome("none", FALSE))} :
        \E j \in {FindByName(ls.recs, cluster[i].resource.spec.name)} :
            /\ Stored(ls)
            /\ callers' = [callers EXCEPT ![i] =
                    IF j # 0 /\ ls.recs[j].content = cluster[i].resource.spec.content.v
                    THEN [NoCaller EXCEPT !.pc = "patch", !.records = <<ls.recs[j]>>]
                    ELSE IF j # 0
                    THEN [NoCaller EXCEPT !.pc = "delete", !.id = ls.recs[j].id]
                    ELSE [NoCaller EXCEPT !.pc = "create"]]
            /\ last' = Returned(ls, "list_dns_records", "z1", cluster[i].key, "", 0, "")
    /\ UNCHANGED <<selVars, response, cluster, checker, ctlVars>>

\* The delete of the record found: when it fails, `?` ends the apply.
ApplyDeletes(i) ==
    /\ callers[i].pc = "delete"
    /\ \E dl \in {delete_dns_record(Client, "z1", callers[i].id, Outcome("none", FALSE))} :
        /\ Stored(dl)
        /\ callers' = [callers EXCEPT ![i] = IF dl.res = "err" THEN NoCaller
                                              ELSE [NoCaller EXCEPT !.pc = "create"]]
        /\ last' = Returned(dl, "delete_dns_record", "z1", cluster[i].key, "", callers[i].id, "")
    /\ UNCHANGED <<selVars, response, cluster, checker, ctlVars>>

\* The create: update_dns_record_and_wait returns the record to apply.
ApplyCreates(i) ==
    /\ callers[i].pc = "create"
    /\ nextId <= MaxId
    /\ \E cr \in {create_dns_record(Client, [zone |-> [kind |-> "Identifier", v |-> "z1"],
                                             name |-> cluster[i].resource.spec.name,
                                             content |-> cluster[i].resource.spec.content.v],
                                    Outcome("none", FALSE))} :
        /\ Stored(cr)
        /\ callers' = [callers EXCEPT ![i] = [NoCaller EXCEPT !.pc = "patch", !.records = cr.recs]]
        /\ last' = Returned(cr, "create_dns_record", "z1", cluster[i].key, "", 0, "")
    /\ UNCHANGED <<selVars, response, cluster, checker, ctlVars>>

\* The patches of apply persist the ids of the record the upsert returned.
ApplyPatches(i) ==
    /\ callers[i].pc = "patch"
    /\ cluster' = [cluster EXCEPT ![i].resource.status =
                        <<[record_id |-> callers[i].records[1].id, zone_id |-> "z1",
                           pending |-> FALSE,
                           conditions |-> << <<success_condition(cluster[i].resource)>> >>]>>]
    /\ callers' = [callers EXCEPT ![i] = NoCaller]
    /\ last' = [NoCall EXCEPT !.op = "apply", !.k = 1 - last.k, !.time = now, !.zone = "z1",
                               !.name = cluster[i].key, !.id = callers[i].records[1].id,
                               !.recs = callers[i].records, !.branch = "ready"]
    /\ UNCHANGED <<now, provZones, provRecs, nextId, list_zone_cache, list_dns_records_cache, inputs,
                   selVars, response, checker, ctlVars>>

\* The user deletes one of the resources.
DeleteOf(i) ==
    /\ ~cluster[i].resource.deleting
    /\ cluster' = [cluster EXCEPT ![i].resource.deleting = TRUE]
    /\ UNCHANGED <<apiVars, selVars, response, checker, callers, ctlVars>>

\* Event::Cleanup of a resource marked for deletion, once no apply of it is
\* running; the finalizer goes with it.
CleanupOf(i) ==
    /\ callers[i].pc = "idle"
    /\ cluster[i].resource.deleting /\ cluster[i].resource.finalizer
    /\ \E r \in {cleanup(cluster[i].resource, Client, Outcome("none", FALSE))} :
        /\ Stored(r)
        /\ last' = Returned(r, "cleanup", unwrap_or_default_status(cluster[i].resource).zone_id,
                            cluster[i].key, "",
                            unwrap_or_default_status(cluster[i].resource).record_id, r.branch)
    /\ cluster' = [cluster EXCEPT ![i].resource.finalizer = FALSE]
    /\ UNCHANGED <<selVars, response, checker, callers, ctlVars>>

\* Two resources that declare the same DNS name in the zone z1, with equal or
\* different content, both with the finalizer, in an empty zone whose
\* provider has two record ids left to hand out.
InitPair ==
    /\ now = 0
    /\ provZones = <<[id |-> "z1", name |-> "a.com"]>>
    /\ provRecs = [z \in ZoneIds |-> <<>>]
    /\ nextId = MaxId - 1
    /\ list_zone_cache = <<>>
    /\ list_dns_records_cache = EmptyCache
    /\ last = NoCall
    /\ inputs = [names |-> {}, contents |-> {}, answers |-> {}, failures |-> NoFailures]
    /\ sel = NoSelect
    /\ response = NoRequest /\ checker = NoChecker
    /\ \E c1, c2 \in Contents :
        cluster = [i \in 1..2 |->
                    [key |-> IF i = 1 THEN ResourceKey ELSE "default:r2", named |-> TRUE,
                     resource |-> [Resource(ResourceSpec("None",
                                        ValueContent(IF i = 1 THEN c1 ELSE c2), ZoneById))
                                        EXCEPT !.finalizer = TRUE]]]
    /\ callers = [i \in 1..2 |-> NoCaller]
    /\ NoController

SpecPair ==
    InitPair /\ [][\E i \in DOMAIN cluster : \/ ApplyLists(i)
                                            \/ ApplyDeletes(i)
                                            \/ ApplyCreates(i)
                                            \/ ApplyPatches(i)
                                            \/ DeleteOf(i)
                                            \/ CleanupOf(i)]_vars

\* --------------------------------------------------------------- claims

\* The step is a client call named op.
Called(op) == last'.k # last.k /\ last'.op = op

\* The provider writes (create, delete) among the requests of a call.
Writes(calls) ==
    LET IsWrite(r) == r.m \in {"POST dns_records", "DELETE dns_records"}
    IN  SelectSeq(calls, IsWrite)

SameArgs(a, b) == a.zone = b.zone /\ a.name = b.name /\ a.content = b.content

\* C1: when update_dns_record_and_wait is called twice in a row with the same
\* arguments and nothing else happens in between, and the first call returned
\* a record, the second call issues no provider create and no provider delete,
\* and the record it returns has the content the first call returned.
C1_IdempotentUpsert ==
    [][ ( /\ last.op = "update_dns_record_and_wait" /\ last.res = "ok"
          /\ Called("update_dns_record_and_wait")
          /\ SameArgs(last, last') )
        => /\ Writes(last'.calls) = <<>>
           /\ last'.res = "ok" => last'.recs[1].content = last.recs[1].content ]_vars

\* C2: a call of update_dns_record_and_wait that finds, under the requested
\* name, a record of different content issues the delete of that record's id
\* first and the create second, once each, and returns a record with the
\* requested content; when the call fails, the writes it issued are a prefix
\* of that delete-then-create pair.
C2_ContentChangeReplace ==
    [][ LET z == last'.zid
            i == FindByName(provRecs[z], last'.name)
            w == Writes(last'.calls)
            del == Req("DELETE dns_records", z, provRecs[z][i].id)
            post == Req("POST dns_records", z, 0)
        IN  ( /\ Called("update_dns_record_and_wait")
              /\ z # ""
              /\ i # 0
              /\ provRecs[z][i].content # last'.content )
            => /\ last'.res = "ok" =>
                    /\ w = <<del, post>>
                    /\ last'.recs[1].content = last'.content
                    /\ last'.recs[1].name = last'.name
               /\ last'.res = "err" => w \in {<<>>, <<del>>, <<del, post>>} ]_vars

\* C2 witness: a call that replaced a record: it returned a record after one
\* delete and one create.
C2_Witness ==
    /\ last.op = "update_dns_record_and_wait"
    /\ last.res = "ok"
    /\ Len(Writes(last.calls)) = 2
    /\ Writes(last.calls)[1].m = "DELETE dns_records"
    /\ last.recs[1].content = last.content

\* C3: the list_dns_records call that immediately follows a create_dns_record
\* or delete_dns_record call against a zone issues a provider fetch for that
\* zone (it does not answer from the cache).
C3_FreshFetchAfterWrite ==
    [][ ( /\ last.op \in {"create_dns_record", "delete_dns_record"}
          /\ Writes(last.calls) # <<>>
          /\ Called("list_dns_records")
          /\ last'.zone = last.zid )
        => last'.calls = <<Req("GET dns_records", last.zid, 0)>> ]_vars

\* C4: when the provider create or delete request of a call fails, the zone's
\* record-cache entry is gone by the time the call has returned the error.
C4_FailedWriteInvalidates ==
    ( /\ last.op \in {"create_dns_record", "delete_dns_record"}
      /\ last.res = "err"
      /\ Writes(last.calls) # <<>> )
    => list_dns_records_cache[last.zid] = <<>>

\* C5 as stated: of two successive list_zones calls less than the zone TTL
\* apart, the second issues no provider call and returns what the first returned.
C5_TwoCallsWithinTTL ==
    [][ ( /\ last.op = "list_zones" /\ last.res = "ok"
          /\ Called("list_zones")
          /\ last'.time - last.time < CACHE_DURATION_ZONES )
        => /\ last'.calls = <<>>
           /\ last'.zones = last.zones ]_vars

\* C5 amended: a list_zones call issued while the cached entry is younger than
\* the zone TTL returns the cached zones and issues no provider call; issued
\* with no entry or with an entry whose age has reached the TTL it issues one
\* provider call and, when that succeeds, replaces the entry by (now, result).
\* list_dns_records does the same per zone with its own TTL.
C5_CacheTTL ==
    [][ /\ Called("list_zones") =>
            IF list_zone_cache # <<>> /\ now - list_zone_cache[1].time < CACHE_DURATION_ZONES
            THEN /\ last'.calls = <<>>
                 /\ last'.res = "ok"
                 /\ last'.zones = list_zone_cache[1].zones
                 /\ list_zone_cache' = list_zone_cache
            ELSE /\ last'.calls = <<Req("GET zones", "", 0)>>
                 /\ last'.res = "ok" =>
                        /\ last'.zones = provZones
                        /\ list_zone_cache' = <<[time |-> now, zones |-> provZones]>>
                 /\ last'.res = "err" => list_zone_cache' = list_zone_cache
        /\ Called("list_dns_records") =>
            LET z == last'.zone
                e == list_dns_records_cache[z]
            IN  IF e # <<>> /\ now - e[1].time < CACHE_DURATION_RECORDS
                THEN /\ last'.calls = <<>>
                     /\ last'.res = "ok"
                     /\ last'.recs = e[1].records
                     /\ list_dns_records_cache' = list_dns_records_cache
                ELSE /\ last'.calls = <<Req("GET dns_records", z, 0)>>
                     /\ last'.res = "ok" =>
                            /\ last'.recs = provRecs[z]
                            /\ list_dns_records_cache'[z] = <<[time |-> now, records |-> provRecs[z]]>>
                     /\ last'.res = "err" => list_dns_records_cache' = list_dns_records_cache ]_vars

\* C5 witness: a list_zones call answered from an entry fetched earlier, in
\* the last minute before the entry expires.
C5_Witness ==
    /\ last.op = "list_zones"
    /\ last.calls = <<>>
    /\ list_zone_cache # <<>>
    /\ last.time - list_zone_cache[1].time = CACHE_DURATION_ZONES - 1
    /\ now = last.time

\* The Ready condition a resource carries: <<>> or <<condition>>.
ReadyCondition(resource) ==
    IF resource.status = <<>> THEN <<>>
    ELSE IF resource.status[1].conditions = <<>> THEN <<>>
    ELSE SelectSeq(resource.status[1].conditions[1], LAMBDA cond : cond.type = "Ready")

\* The branches of apply that write a condition, and the reason each gives.
ConditionBranches == {"missing content", "missing zone", "pending", "ready"}
ReasonOf(branch) == IF branch = "ready" THEN "Sucessfully applied changes" ELSE branch

\* C6: every apply that writes a condition writes one Ready condition whose
\* reason is the one of this call; when the resource the call was given
\* carries a Ready condition of the same status, the new lastTransitionTime
\* is that condition's, whatever the reasons; when it carries one of the other
\* status, or none, the new lastTransitionTime is the time of the call.
C6_TransitionTimeStability ==
    [][ (Called("apply") /\ last'.branch \in ConditionBranches) =>
            LET prev == ReadyCondition(store)
                new == ReadyCondition(obj')
            IN  /\ Len(new) = 1
                /\ Len(obj'.status[1].conditions[1]) = 1
                /\ new[1].status = (IF last'.branch = "ready" THEN "True" ELSE "False")
                /\ new[1].reason = ReasonOf(last'.branch)
                /\ new[1].message # ""
                /\ (prev # <<>> /\ prev[1].status = new[1].status)
                        => new[1].last_transition_time = prev[1].last_transition_time
                /\ (prev # <<>> /\ prev[1].status # new[1].status)
                        => new[1].last_transition_time = now
                /\ prev = <<>> => new[1].last_transition_time = now ]_vars

\* C6 witness: an apply has written a condition of the same status as, and
\* another reason than, the one its resource carried, and kept a
\* lastTransitionTime that lies before the call.
C6_Witness ==
    /\ last.op = "apply" /\ last.branch \in ConditionBranches
    /\ ReadyCondition(store) # <<>>
    /\ ReadyCondition(obj) # <<>>
    /\ ReadyCondition(store)[1].status = ReadyCondition(obj)[1].status
    /\ ReadyCondition(store)[1].reason # ReadyCondition(obj)[1].reason
    /\ ReadyCondition(obj)[1].reason = ReasonOf(last.branch)
    /\ ReadyCondition(obj)[1].last_transition_time = ReadyCondition(store)[1].last_transition_time
    /\ ReadyCondition(obj)[1].last_transition_time < last.time

\* The match state stored under the resource's key, false when absent.
StoredMatch(map) == IF map[ResourceKey] = <<>> THEN FALSE ELSE map[ResourceKey][1]

\* C7: a check that completes observes a match exactly when the expected
\* content is among the DNS answers, stores the observed value under the
\* resource's key, and emits a trigger exactly when the observed value differs
\* from the stored one (false when absent): a first match emits one trigger, a
\* repeated match none. A check that is skipped stores and emits nothing.
C7_FlipTriggers ==
    [][ (Called("check") /\ last'.branch # "panic") =>
            IF last'.completed
            THEN /\ last'.matches = (last'.content \in last'.answers)
                 /\ dns_lookup_success'[ResourceKey] = <<last'.matches>>
                 /\ last'.emitted = (StoredMatch(dns_lookup_success) # last'.matches)
            ELSE /\ ~last'.emitted
                 /\ dns_lookup_success' = dns_lookup_success ]_vars

\* C7 witness: a check has observed a match on an unmatched resource, stored
\* true and emitted a trigger.
C7_Witness ==
    /\ last.op = "check" /\ last.completed
    /\ last.content \in last.answers
    /\ last.matches /\ last.emitted
    /\ dns_lookup_success[ResourceKey] = <<TRUE>>

\* C8: after an apply of the resource has succeeded, no provider record remains
\* under another DNS name than the one applied (the zone starts empty and only
\* applies of this resource write to it, so every record is one it created).
C8_RenameDeletesOld ==
    (last.op = "apply" /\ last.branch \in {"pending", "ready"}) =>
        \A z \in ZoneIds : \A i \in 1..Len(provRecs[z]) : provRecs[z][i].name = last.name

\* The first address of ips with the given family, or the first address when
\* none has it (ips not empty).
FirstOfFamilyOrFirst(ips, family) ==
    LET hits == { i \in 1..Len(ips) : ips[i] \in family }
    IN  IF hits = {} THEN ips[1]
        ELSE ips[CHOOSE i \in hits : \A j \in hits : i <= j]

\* C9: for a candidate list with at least one address, select_ip returns the
\* only candidate when there is one; with several candidates and hint A
\* (AAAA) the first IPv4 (IPv6) candidate, or the first candidate when none
\* has that family; with several candidates and any other or no hint the
\* first IPv4 candidate, or the first candidate when none is IPv4.
C9_AddressSelection ==
    (sel.done /\ Len(sel.ips) >= 1) =>
        sel.res = SomeIp(
            IF Len(sel.ips) = 1 THEN sel.ips[1]
            ELSE IF sel.record_type = "AAAA" THEN FirstOfFamilyOrFirst(sel.ips, V6)
            ELSE FirstOfFamilyOrFirst(sel.ips, V4))

\* C9 witness: [10.0.0.1, 2001:db8::1] with hint AAAA has selected 2001:db8::1.
C9_Witness ==
    /\ sel.done
    /\ sel.ips = <<"10.0.0.1", "2001:db8::1">>
    /\ sel.record_type = "AAAA"
    /\ sel.res = SomeIp("2001:db8::1")

\* C10: for an empty candidate list select_ip returns none, whatever the hint.
C10_EmptyYieldsNone ==
    (sel.done /\ sel.ips = <<>>) => sel.res = NoneIp

\* C11: whenever cleanup issues a provider request it is one delete, of the
\* zone id and record id in the status of the resource, which are the ones the
\* object holds at that moment; it issues no listing of zones or records (no
\* lookup of any kind), and a resource without status gives no request at all.
C11_CleanupUsesStatus ==
    [][ Called("cleanup") =>
            /\ store.status = obj.status
            /\ IF store.status = <<>>
               THEN last'.calls = <<>>
               ELSE last'.calls = <<Req("DELETE dns_records", obj.status[1].zone_id,
                                        obj.status[1].record_id)>> ]_vars

\* C11 witness: a cleanup has deleted the record whose id an apply persisted.
C11_Witness ==
    /\ last.op = "cleanup" /\ last.branch = "deleted"
    /\ obj.status # <<>>
    /\ last.calls = <<Req("DELETE dns_records", "z1", obj.status[1].record_id)>>
    /\ obj.status[1].record_id > 0
    /\ provRecs["z1"] = <<>>

\* C12: a cleanup of a resource that waits on its finalizer whose provider
\* delete fails still returns Ok, the reconcile succeeds with the normal
\* requeue and the finalizer is removed, so the object is gone; and every
\* resource marked for deletion is eventually gone.
C12_FailedDeleteDoesNotBlock ==
    /\ [][ (Called("cleanup") /\ obj.finalizer /\ last'.branch = "delete failed") =>
                /\ last'.res = "ok"
                /\ last'.requeue = RequeueNormal
                /\ Deleted(obj') ]_vars
    /\ (obj.deleting ~> Deleted(obj))

\* C12 witness: the provider delete of a cleanup failed and the object is gone.
C12_Witness ==
    /\ last.op = "cleanup" /\ last.branch = "delete failed"
    /\ last.calls # <<>>
    /\ Deleted(obj)

\* An apply that ended at a provider call which failed with a status code.
ProviderFailed(call) ==
    /\ call.op = "apply" /\ call.res = "err"
    /\ call.branch \in {"zone error", "update error"}
    /\ call.code \in Codes

\* C13: an apply in which a provider call fails with status 409 or 404 leaves
\* the reconcile successful with the normal requeue (error_policy is not
\* invoked); with any other status the error is returned and error_policy
\* gives the short requeue.
C13_Provider404And409Absorbed ==
    [][ (Called("apply") /\ ProviderFailed(last')) =>
            last'.requeue = (IF last'.code \in {404, 409} THEN RequeueNormal ELSE RequeueError) ]_vars

\* C14: an apply of a resource with a literal content whose zone reference
\* names a config map or secret that does not exist writes a Ready=False
\* condition with reason "missing zone", issues no provider call and returns
\* success with the normal requeue.
C14_AbsentReferenceIsNone ==
    [][ ( /\ Called("apply")
          /\ store.spec.content.kind = "Value"
          /\ store.spec.zone.from = "Reference"
          /\ last'.referenced = NoObject )
        => /\ last'.branch = "missing zone"
           /\ last'.calls = <<>>
           /\ last'.res = "ok"
           /\ last'.requeue = RequeueNormal
           /\ ReadyCondition(obj') # <<>>
           /\ ReadyCondition(obj')[1].status = "False"
           /\ ReadyCondition(obj')[1].reason = "missing zone" ]_vars

\* A Service that exists and provides no address: a LoadBalancer without
\* ingress or with no ingress address, any other Service without a usable
\* external IP.
NoAddress(svc) ==
    /\ svc.exists /\ svc.spec
    /\ IF svc.type = "LoadBalancer"
       THEN svc.ingress = <<>> \/ ParseAll(svc.ingress[1]) = <<>>
       ELSE svc.external_ips = <<>> \/ ParseAll(svc.external_ips[1]) = <<>>

\* C15: an apply of a resource whose content is a service reference, met by a
\* Service that provides no address, writes a Ready=False condition with
\* reason "missing content", issues no provider call and returns success with
\* the normal requeue (error_policy is not invoked).
C15_MissingAddressIsRecoverable ==
    [][ ( /\ Called("apply")
          /\ store.spec.content.kind = "Service"
          /\ NoAddress(last'.svc) )
        => /\ last'.branch = "missing content"
           /\ last'.calls = <<>>
           /\ last'.res = "ok"
           /\ last'.requeue = RequeueNormal
           /\ ReadyCondition(obj') # <<>>
           /\ ReadyCondition(obj')[1].status = "False"
           /\ ReadyCondition(obj')[1].reason = "missing content" ]_vars

\* The status fields an apply persists besides the conditions (those of the
\* default status when the object has none).
StatusFields(resource) ==
    [record_id |-> unwrap_or_default_status(resource).record_id,
     zone_id |-> unwrap_or_default_status(resource).zone_id,
     pending |-> unwrap_or_default_status(resource).pending]

\* C16: an apply that finds the content, the zone reference or the zone id
\* unresolved writes the Ready=False condition of that reason and nothing
\* else: it issues no provider create or delete, enqueues no check request,
\* and the object's record id, zone id and pending are what they were before.
C16_UnresolvedStopsApply ==
    [][ (Called("apply") /\ last'.branch \in {"missing content", "missing zone"}) =>
            /\ Writes(last'.calls) = <<>>
            /\ dns_check_tx' = dns_check_tx
            /\ last'.res = "ok"
            /\ ReadyCondition(obj') # <<>>
            /\ ReadyCondition(obj')[1].status = "False"
            /\ ReadyCondition(obj')[1].reason = last'.branch
            /\ StatusFields(obj') = StatusFields(obj) ]_vars

HandledRequest == Called("check") /\ dns_check_tx # <<>> /\ dns_check_tx' = Tail(dns_check_tx)

\* C18: an apply with checks on of an object that has no status yet, which
\* persists the status, enqueues a check request for the resource; and the
\* checker, handling a request, never finds the resource without status (it
\* never skips the check for lack of one).
C18_RequestAfterStatus ==
    [][ /\ ( /\ Called("apply") /\ do_dns_check
             /\ obj.status = <<>>
             /\ last'.branch \in {"pending", "ready"} )
           => dns_check_tx' = Append(dns_check_tx, DnsCheckRequest(FALSE))
        /\ HandledRequest => last'.branch # "no status" ]_vars

\* C19: an apply that gets as far as sending a check request (checks on, no
\* status on the resource, upsert done) while the channel is full goes on
\* without waiting: it drops the request, leaves the channel as it is
\* and persists its status in the same reconcile.
C19_BestEffortEnqueue ==
    [][ ( /\ Called("apply") /\ do_dns_check
          /\ store.status = <<>>
          /\ Len(dns_check_tx) >= MaxQueued
          /\ last'.branch \in {"send", "pending", "ready"} )
        => /\ last'.res = "ok"
           /\ reconciler' = "idle"
           /\ dns_check_tx' = dns_check_tx
           /\ obj'.status # <<>>
           /\ obj'.status[1].record_id = last'.recs[1].id ]_vars

\* C20: a check whose DNS query fails leaves the resource's key not matching
\* in the map (false, or no entry where there was none) and emits a trigger
\* when true was stored before; the checker goes on.
C20_QueryErrorIsNoMatch ==
    [][ (Called("check") /\ last'.branch = "query error") =>
            /\ ~StoredMatch(dns_lookup_success')
            /\ last'.emitted = StoredMatch(dns_lookup_success)
            /\ reconciler' = reconciler ]_vars

\* C21: cloudflare_api_request returns an error whenever the HTTP status is
\* not 2xx or the response envelope has success=false, and returns the result
\* payload only when the status is 2xx and success=true.
EnvelopeFailed(res) == res.json /\ res.envelope /\ ~res.success
C21_EnvelopeChecked ==
    response.done /\ response.res.sent =>
        /\ (~is_success(response.res.status) \/ EnvelopeFailed(response.res))
                => response.returned.res = "err"
        /\ response.returned.res = "ok"
                => is_success(response.res.status) /\ response.res.success

\* C22: every reconcile whose apply or cleanup ends without an error
\* (unresolved content and unresolved zone included) or with an absorbed one
\* is requeued after 5 minutes, every reconcile whose error is returned is
\* requeued after 15 seconds by error_policy, and no reconcile that has ended
\* leaves a resource that still exists without a requeue.
ReconcileEnded ==
    /\ Called("apply") \/ Called("apply sent") \/ (Called("cleanup") /\ obj.finalizer)
    /\ reconciler' \notin {"send", "delete_and_finalize"}
C22_RequeuePolicy ==
    [][ ReconcileEnded =>
            /\ last'.res = "ok" => last'.requeue = RequeueNormal
            /\ last'.res = "err" => last'.requeue \in {RequeueNormal, RequeueError}
            /\ (last'.res = "err" /\ last'.requeue = RequeueNormal)
                    => last'.branch \in {"get error", "delete failed"}
            /\ ~Deleted(obj') => last'.requeue \in {RequeueNormal, RequeueError} ]_vars

\* C23: in a check cycle a failure local to one resource (no name or
\* namespace, no status, unresolved content, a type resolve does not query, a
\* DNS query error) never keeps the loop from going on to the remaining
\* resources of the list, and a failed list or get of the resources leaves
\* the checker in its loop, back at select!.
C23_ErrorIsolation ==
    [][ /\ (Called("check") /\ ~last'.completed)
                => checker' = Continue(Tail(checker.list))
        /\ ((Called("list resources") \/ Called("get resource")) /\ last'.res = "err")
                => checker'.pc = "select" ]_vars

\* C24: a call that never returns does not wedge the checker: while the
\* content lookup or the DNS query of one resource is outstanding, the loop
\* still gets to the resources behind it in the list, and a request waiting in
\* the channel is still received (unless the process has ended).
Awaiting == checker.pc \in {"lookup", "resolve"}
C24_StuckCallDoesNotWedge ==
    /\ (Awaiting /\ Len(checker.list) > 1)
            ~> (Len(checker.list) <= 1 \/ checker.pc = "panicked")
    /\ (Awaiting /\ dns_check_tx # <<>>)
            ~> (dns_check_tx = <<>> \/ checker.pc = "panicked")

\* C25: a check that is skipped because the resource has no status, because
\* its content cannot be resolved or because resolve does not query its type
\* leaves the entry of the resource's key in the match-state map as it was and
\* emits no trigger.
SkipCase ==
    /\ Called("check")
    /\ \E head \in {Head(checker.list)} :
        /\ head.named
        /\ \/ head.resource.status = <<>>
           \/ lookup_content(head.resource.spec, last'.svc).tag # "Some"
           \/ unwrap_or_default(head.resource.spec.ty) \notin Resolvable
C25_SkippedChecksHaveNoEffect ==
    [][ SkipCase => /\ dns_lookup_success'[last'.name] = dns_lookup_success[last'.name]
                    /\ ~last'.emitted
                    /\ checker'.pc # "yield" ]_vars
\* A resource whose content could not be resolved was passed over while the
\* map held a match under its key.
C25_Witness ==
    /\ last.op = "check" /\ ~last.completed
    /\ last.branch = "no content"
    /\ dns_lookup_success[last.name] = <<TRUE>>

\* C28: the lock of the match-state map is held for one lookup or update of
\* one key only: the checker does not hold it while a call of its own is
\* outstanding nor while it is suspended in the yield of a trigger, so the
\* pending computation of an apply never has to wait for a suspended checker.
C28_LockScope ==
    checker.pc \in {"lookup", "resolve", "yield"} => ~checker.guard /\ ENABLED ApplyPending

\* C26: under every interleaving of concurrent client calls, a
\* list_dns_records call that starts after a create or delete has taken effect
\* at the provider is not answered with a cached list fetched before it: a
\* call during which the zone did not change, answered from the cache, returns
\* the records the zone has.
C26_NoStaleListAfterWrite ==
    [][ \A t \in Callers :
            ( /\ callers[t].pc = "lock" /\ callers'[t].pc = "idle"
              /\ callers[t].started = provRecs["z1"] )
            => last'.recs = provRecs["z1"] ]_vars

\* C27 as stated: the cache lock is not held across the provider fetch (so
\* that two calls that miss can both have a fetch outstanding).
C27_LockFreeAcrossFetch ==
    \A t \in Callers : callers[t].pc \in {"fetch", "fetched"} => ~callers[t].guard

\* C27 as amended: list_dns_records holds the cache lock across its fetch, so
\* at no time do two calls have a fetch outstanding: a call that arrives while
\* another fetches waits for the lock.
Fetching == { t \in Callers : callers[t].pc \in {"fetch", "fetched"} }
C27_FetchesSerialized ==
    /\ Cardinality(Fetching) <= 1
    /\ \A t \in Callers : callers[t].pc = "lock" /\ Fetching # {} => ~ENABLED ListLocked(t)
\* Two calls that both find no entry: one fetches, the other waits.
C27_Witness ==
    /\ list_dns_records_cache["z1"] = <<>>
    /\ \E t, u \in Callers : callers[t].pc = "fetch" /\ callers[u].pc = "lock"

\* The record a previous successful apply persisted is still in its zone, under
\* the resource's name and with the content the resource resolves to now.
PersistedRecordStands(svc) ==
    /\ obj.status # <<>>
    /\ obj.status[1].zone_id \in ZoneIds
    /\ lookup_content(store.spec, svc).tag = "Some"
    /\ \E i \in DOMAIN provRecs[obj.status[1].zone_id] :
          LET rec == provRecs[obj.status[1].zone_id][i]
          IN  /\ rec.id = obj.status[1].record_id
              /\ rec.name = store.spec.name
              /\ rec.content = lookup_content(store.spec, svc).v

\* C29: an apply that runs again on a resource whose spec, resolved content,
\* zone and provider records are as the previous successful apply left them
\* issues no provider create and no provider delete, and persists the record
\* id and the zone id that apply persisted, whatever caused the repeat.
C29_ApplyIdempotent ==
    [][ ( /\ Called("apply")
          /\ PersistedRecordStands(last'.svc) )
        => /\ Writes(last'.calls) = <<>>
           /\ last'.res = "ok" => /\ obj'.status[1].record_id = obj.status[1].record_id
                                  /\ obj'.status[1].zone_id = obj.status[1].zone_id ]_vars

\* From some point on every apply of the resource succeeds: its content and
\* zone resolve and the provider and the API server answer.
AppliesSucceed == <>[][Called("apply") => last'.branch \in {"ready", "pending"}]_vars

\* From some point on every check finds the content among the DNS answers, or
\* every check gets an answer without it.
ChecksMatch == <>[][Called("check") => last'.matches]_vars
ChecksMiss == <>[][Called("check") => last'.completed /\ ~last'.matches]_vars

\* The status the object carries says ready: pending false, Ready True; or
\* says pending: pending true, Ready False.
PersistedReady ==
    /\ obj.status # <<>>
    /\ ~obj.status[1].pending
    /\ ReadyCondition(obj) # <<>> /\ ReadyCondition(obj)[1].status = "True"
PersistedPending ==
    /\ obj.status # <<>>
    /\ obj.status[1].pending
    /\ ReadyCondition(obj) # <<>> /\ ReadyCondition(obj)[1].status = "False"

\* C30: with checks enabled and the checker and the controller scheduled
\* fairly, when from some point on the applies of the resource succeed and the
\* DNS answer of every check contains the content, the checker comes to store
\* a match, the check that turns the stored state emits a trigger, and the
\* applies come to persist pending false with Ready True for good; when
\* instead from some point on the answers do not contain the content, the
\* applies come to persist pending true with Ready False for good.
C30_PropagationYieldsReady ==
    /\ (AppliesSucceed /\ ChecksMatch)
            => (<>[]StoredMatch(dns_lookup_success) /\ <>[]PersistedReady)
    /\ (AppliesSucceed /\ ChecksMiss)
            => (<>[](~StoredMatch(dns_lookup_success)) /\ <>[]PersistedPending)
    /\ [][ (Called("check") /\ StoredMatch(dns_lookup_success') # StoredMatch(dns_lookup_success))
                => last'.emitted ]_vars

\* C30 witness: a check has stored a match and emitted the trigger, and a
\* later apply has persisted pending false with Ready True over a status that
\* said pending.
C30_Witness ==
    /\ do_dns_check
    /\ StoredMatch(dns_lookup_success)
    /\ last.op = "apply" /\ last.branch = "ready"
    /\ PersistedReady
    /\ store.status # <<>> /\ store.status[1].pending

StoredKeys(map) == { key \in Keys : map[key] # <<>> }

\* C32: no step removes a key from the match-state map, whether an apply, a
\* cleanup with the removal of the finalizer, a deletion or a check; a step
\* that changes the map is a completed check, which writes the entry of the
\* resource it checked; so the entry of a resource is still there when the
\* resource is gone.
C32_MapKeysOnlyGrow ==
    [][ /\ StoredKeys(dns_lookup_success) \subseteq StoredKeys(dns_lookup_success')
        /\ dns_lookup_success' # dns_lookup_success
                => /\ Called("check") /\ last'.completed
                   /\ dns_lookup_success' = [dns_lookup_success EXCEPT ![ResourceKey] = <<last'.matches>>]
      ]_vars

\* C32 witness: the resource is gone after its cleanup and the map still
\* holds the entry its checks wrote.
C32_Witness ==
    /\ Deleted(obj)
    /\ last.op = "cleanup"
    /\ ResourceKey \in StoredKeys(dns_lookup_success)

\* The record ids the provider has handed out to upserts of the resource: the
\* zone was empty when the controller started, and every id from the first
\* free one on went to a create of an apply.
UpsertedIds == (MaxId - 1)..(nextId - 1)

\* C33: every provider delete that a cleanup issues names a zone id and a
\* record id that the provider returned to an earlier successful upsert of
\* the resource, never an empty or default id.
C33_CleanupDeletesByAssignedId ==
    [][ Called("cleanup") =>
            \A i \in DOMAIN Writes(last'.calls) :
                /\ Writes(last'.calls)[i].z \in ZoneIds
                /\ Writes(last'.calls)[i].id \in UpsertedIds ]_vars

\* The zone holds a record with this id.
Holds(recs, id) == \E n \in DOMAIN recs["z1"] : recs["z1"][n].id = id

\* C34: a cleanup of one resource removes no provider record whose id is
\* stored in the status of another resource that is not being deleted, also
\* when both declare the same DNS name in the same zone.
C34_CleanupSparesOthers ==
    [][ \A i, j \in DOMAIN cluster :
            ( /\ i # j
              /\ Called("cleanup") /\ last'.name = cluster[i].key
              /\ ~cluster[j].resource.deleting
              /\ cluster[j].resource.status # <<>>
              /\ Holds(provRecs, cluster[j].resource.status[1].record_id) )
            => Holds(provRecs', cluster[j].resource.status[1].record_id) ]_vars

\* C35: under every interleaving of the applies of resources of one zone,
\* when update_dns_record_and_wait returns a record to an apply the zone
\* holds a record of that id with the resource's DNS name and content, and
\* the record id an apply writes to the status is not the id of a record
\* that is deleted at the provider by then.
C35_PersistedIdIsLive ==
    [][ \A i \in DOMAIN cluster :
            /\ (callers[i].pc # "patch" /\ callers'[i].pc = "patch")
                    => \E n \in DOMAIN provRecs'["z1"] :
                          /\ provRecs'["z1"][n].id = callers'[i].records[1].id
                          /\ provRecs'["z1"][n].name = cluster[i].resource.spec.name
                          /\ provRecs'["z1"][n].content = cluster[i].resource.spec.content.v
            /\ (Called("apply") /\ last'.name = cluster[i].key)
                    => Holds(provRecs, last'.id) ]_vars

\* C36: a zone that started with at most one record per name holds at most
\* one record under any DNS name after any interleaving of the upserts of the
\* applies.
C36_OneRecordPerName ==
    \A m, n \in DOMAIN provRecs["z1"] :
        provRecs["z1"][m].name = provRecs["z1"][n].name => m = n

\* C37: with checks enabled, the apply that persists the first status of a
\* newly created resource persists pending true with Ready False, whatever
\* happened before, an earlier resource of the same namespace and name
\* included.
C37_NewResourceStartsPending ==
    [][ ( /\ do_dns_check
          /\ Called("apply") \/ Called("apply sent")
          /\ last'.branch \in {"pending", "ready"}
          /\ obj.status = <<>> /\ obj'.status # <<>> )
        => PersistedPending' ]_vars

\* C38: every status a resource carries has pending false exactly when its
\* Ready condition is True, and a record id whenever Ready is True.
C38_StatusConsistent ==
    (obj.status # <<>> /\ ReadyCondition(obj) # <<>>) =>
        /\ ~obj.status[1].pending <=> ReadyCondition(obj)[1].status = "True"
        /\ ReadyCondition(obj)[1].status = "True" => obj.status[1].record_id # 0

====
